---- MODULE Spec2Model ----
(***************************************************************************)
(* A model of rush-lib's Utilities class (process execution, environment   *)
(* sanitization, retry loops) and of the purge action that drives it.      *)
(*                                                                         *)
(* Text that the code inspects character by character (environment         *)
(* variables, command and argument tokens) is a sequence of one-character  *)
(* strings; opaque text (messages, captured output) is a string.           *)
(***************************************************************************)
EXTENDS Integers, Sequences, FiniteSets, TLC

VARIABLES
    \* ---- the process ----
    platform,       \* os.platform() / process.platform
    processEnv,     \* process.env
    errnoIsNumber,  \* the node runtime: whether the errno of a spawn error is
                    \* a number (node 14 and later) or the error's name
    \* ---- _createEnvironmentForRushCommand, called on its own ----
    envPc,          \* "start" | "sanitized" | "resanitized"
    envInitial,     \* the initialEnvironment argument (None: undefined)
    envInitCwd,     \* the initCwd argument
    envOut,         \* the environment returned by the call
    envOut2,        \* the environment returned by sanitizing envOut with initCwd ''
    \* ---- one call of an execution entry point ----
    pc,             \* where the call is: "Pending", "Spawning", "Spawned",
                    \* "Respawned", "Reported", "Callback", "Done"
    call,           \* the entry point called and its arguments
    attemptNumber,  \* executeCommandWithRetry's attemptNumber
    spawned,        \* the spawnSync calls of the current synchronous execution
    results,        \* what each of them returned
    reported,       \* how the current synchronous execution ended
    callOutcome,    \* how the entry point ended
    spawnCount,     \* spawnSync calls since the entry point was called
    executions,     \* synchronous executions begun since then
    callbacks,      \* retryCallback invocations since then
    errorCount,     \* Error objects created since then
    \* ---- one call of retryUntilTimeout ----
    rtPc,           \* "Idle", "Pending", "Attempting", "Succeeded", "Returned", "Failed"
    now,            \* the clock getTimeInMs() reads
    maxWaitTimeMs,  \* the maxWaitTimeMs argument
    startTime,      \* the local startTime
    looped,         \* the local looped
    fnCalls,        \* invocations of fn since the call
    lastError,      \* the error the latest failed invocation of fn threw
    rtResult,       \* the local result
    rtOutcome,      \* how the call ended
    failedAt,       \* the clock when the call threw
    factoryCalls,   \* invocations of getTimeoutError since the call
    stallLogs,      \* "stalled for ... seconds" lines written since the call
    \* ---- one run of the purge action ----
    purgePc,        \* "Idle", "Pending", "Started", "Handled", "Constructed",
                    \* "Registered", "Initiated", "Resolved", "Rejected"
    unsafeFlag,     \* this._unsafeParameter.value
    purgeCalls,     \* the calls made on the PurgeManager, in order
    registered,     \* the paths the PurgeManager is to delete
    pending,        \* the paths whose deletion has been initiated and not ended
    onDisk,         \* the registered-or-not paths that exist
    deleted,        \* the paths the purge has removed
    failures,       \* the paths whose deletion failed
    raised,         \* whether a call made by run() has thrown
    reports,        \* "Rush purge started successfully ..." lines written
    \* ---- the file system under dangerouslyDeletePath ----
    fsPc,           \* "Idle" | "Ready" | "Folder" (createFolderWithRetry is called)
    folderName,     \* the folderName argument of createFolderWithRetry
    fs,             \* what there is at each path: "absent", "file", "directory"
    locked,         \* the paths another process holds a lock on
    deletions,      \* the calls of dangerouslyDeletePath and deleteFile made, in order
    \* ---- the environment objects of a run of invocations ----
    envObjects,     \* the IEnvironment objects there are: 1 is process.env,
                    \* 2 the object a caller supplies, the others were made since
    childEnvs,      \* for each invocation made, in order, what it was and the
                    \* object handed to its child
    \* ---- the directory installPackageInDirectory installs in ----
    installFolder   \* what is at the directory, and the lines written about it

processVars == <<platform, processEnv, errnoIsNumber>>

envVars == <<envPc, envInitial, envInitCwd, envOut, envOut2>>

execVars == <<pc, call, attemptNumber, spawned, results,
              reported, callOutcome, spawnCount, executions, callbacks, errorCount>>

retryVars == <<rtPc, now, maxWaitTimeMs, startTime, looped, fnCalls, lastError,
               rtResult, rtOutcome, failedAt, factoryCalls, stallLogs>>

purgeVars == <<purgePc, unsafeFlag, purgeCalls, registered, pending, onDisk,
               deleted, failures, raised, reports>>

fsVars == <<fsPc, folderName, fs, locked, deletions>>

isoVars == <<envObjects, childEnvs>>

installVars == <<installFolder>>

vars == <<processVars, envVars, execVars, retryVars, purgeVars, fsVars, isoVars, installVars>>

\* What the steps of one component leave alone
exceptEnv == <<processVars, execVars, retryVars, purgeVars, fsVars, isoVars, installVars>>
exceptExec == <<processVars, envVars, retryVars, purgeVars, fsVars, isoVars, installVars>>
exceptRetry == <<processVars, envVars, execVars, purgeVars, fsVars, isoVars, installVars>>
exceptPurge == <<processVars, envVars, execVars, retryVars, fsVars, isoVars, installVars>>
exceptFs == <<processVars, envVars, execVars, retryVars, purgeVars, isoVars, installVars>>

-----------------------------------------------------------------------------
(* JavaScript values *)

\* A value that may be undefined or null (environment?: IEnvironment,
\* result.error, result.status, result.stderr) is a sequence: empty when it
\* is undefined or null, else of the one value.
None == << >>
Some(value) == <<value>>
isSome(optional) == Len(optional) = 1
valueOf(optional) == optional[1]

-----------------------------------------------------------------------------
(* Strings as character sequences *)

LowerCaseLetters == <<"a","b","c","d","e","f","g","h","i","j","k","l","m",
                      "n","o","p","q","r","s","t","u","v","w","x","y","z">>
UpperCaseLetters == <<"A","B","C","D","E","F","G","H","I","J","K","L","M",
                      "N","O","P","Q","R","S","T","U","V","W","X","Y","Z">>

\* String.prototype.toUpperCase on one character
upperChar(c) ==
    IF \E i \in DOMAIN LowerCaseLetters : LowerCaseLetters[i] = c
    THEN UpperCaseLetters[CHOOSE i \in DOMAIN LowerCaseLetters : LowerCaseLetters[i] = c]
    ELSE c

\* String.prototype.toUpperCase
toUpperCase(s) == [i \in 1..Len(s) |-> upperChar(s[i])]

\* whether prefix is a prefix of s: the anchored regular expression /^prefix/
startsWith(s, prefix) ==
    /\ Len(s) >= Len(prefix)
    /\ SubSeq(s, 1, Len(prefix)) = prefix

\* String.prototype.indexOf(ch) >= 0
containsChar(s, ch) == \E i \in 1..Len(s) : s[i] = ch

-----------------------------------------------------------------------------
(* Environment variable names *)

INIT_CWD == <<"I","N","I","T","_","C","W","D">>
NPM_CONFIG_ == <<"N","P","M","_","C","O","N","F","I","G","_">>

\* The variable names the environments of the model are built from.
EnvKeys == {
    INIT_CWD,
    <<"i","n","i","t","_","c","w","d">>,
    <<"N","P","M","_","C","O","N","F","I","G","_","X">>,
    <<"n","p","m","_","c","o","n","f","i","g","_","x">>,
    <<"N","P","M","_","C","O","N","F","I","G">>,
    <<"X","_","N","P","M","_","C","O","N","F","I","G","_">>,
    <<"P","a","t","h">> }

EnvValues == {<<"1">>, <<"2">>}

\* The value of envOut before the call has returned
NoEnvironment == << >>

\* Every IEnvironment over EnvKeys
Environments == UNION {[keys -> EnvValues] : keys \in SUBSET EnvKeys}

Platforms == {"win32", "linux"}

InitCwds == {<< >>, <<"/","r">>}

-----------------------------------------------------------------------------
(* Utilities._createEnvironmentForRushCommand *)

\* line 441: the key the two tests below are made on
normalizedKey(onPlatform, key) ==
    IF onPlatform = "win32" THEN toUpperCase(key) ELSE key

\* lines 446-458: an entry is skipped (continue) when its normalized key is
\* INIT_CWD or matches /^NPM_CONFIG_/
isSkippedKey(onPlatform, key) ==
    \/ normalizedKey(onPlatform, key) = INIT_CWD
    \/ startsWith(normalizedKey(onPlatform, key), NPM_CONFIG_)

\* A slip of the loop body: the tests made on the key as written, the entry
\* stored under the normalized key.
createEnvironmentStoringNormalizedKey(onPlatform, inherited, initCwd, initialEnvironment) ==
    LET base == IF isSome(initialEnvironment) THEN valueOf(initialEnvironment) ELSE inherited
        kept == {key \in DOMAIN base : ~isSkippedKey("linux", key)}
        stored == {normalizedKey(onPlatform, key) : key \in kept}
        copied == [nk \in stored |->
                     base[CHOOSE key \in kept : normalizedKey(onPlatform, key) = nk]]
    IN  IF initCwd # << >>
        THEN [key \in stored \cup {INIT_CWD} |->
                 IF key = INIT_CWD THEN initCwd ELSE copied[key]]
        ELSE copied

createEnvironmentForRushCommand(onPlatform, inherited, initCwd, initialEnvironment) ==
    LET \* lines 436-438
        base == IF isSome(initialEnvironment) THEN valueOf(initialEnvironment) ELSE inherited
        \* lines 440-461: every entry that is not skipped is copied
        kept == {key \in DOMAIN base : ~isSkippedKey(onPlatform, key)}
        copied == [key \in kept |-> base[key]]
    IN  \* lines 470-472: if (initCwd) environment['INIT_CWD'] = initCwd
        IF initCwd # << >>
        THEN [key \in kept \cup {INIT_CWD} |->
                 IF key = INIT_CWD THEN initCwd ELSE copied[key]]
        ELSE copied

-----------------------------------------------------------------------------
(* Outcomes, errors and spawnSync results *)

EOL == "\n"

\* An Error object: id tells one object from another, message is the parts
\* its text was concatenated from.
\* origin names the code that made it.
\* code is the name of a system error ("" when the error has none); errno
\* is a string, a number or undefined.
ErrnoName(name) == [type |-> "string", name |-> name, number |-> 0]
ErrnoNumber(number) == [type |-> "number", name |-> "", number |-> number]
NoErrno == [type |-> "undefined", name |-> "", number |-> 0]
SpawnError(id, code, errno) ==
    [id |-> id, origin |-> "spawnSync", code |-> code, errno |-> errno,
     message |-> <<"spawnSync " \o code>>]
NewError(id, origin, message) ==
    [id |-> id, origin |-> origin, code |-> "", errno |-> NoErrno, message |-> message]

NoOutcome == [kind |-> "none", error |-> None, value |-> None]
Returned(value) == [kind |-> "returned", error |-> None, value |-> value]
Threw(error) == [kind |-> "threw", error |-> Some(error), value |-> None]

\* The stdio option: [0, 1, 2], ['pipe', 'pipe', 'pipe'], or undefined, which
\* child_process takes as 'pipe'.
StdioInherit == "[0,1,2]"
StdioPipe == "['pipe','pipe','pipe']"
StdioUndefined == "undefined"
isPiped(stdio) == stdio # StdioInherit

ExitStatuses == {0, 1, 2}
SpawnErrorCodes == {"ENOENT", "EACCES"}

\* The number libuv has for a system error (Linux)
libuvErrno(code) ==
    IF code = "ENOENT" THEN -2
    ELSE IF code = "EACCES" THEN -13
    ELSE IF code = "ENOTDIR" THEN -20
    ELSE -105

\* error.errno of an error of spawnSync: the name of the error up to node 12,
\* its negative number from node 14 on; error.code is the name in both.
spawnErrno(code) ==
    IF errnoIsNumber THEN ErrnoNumber(libuvErrno(code)) ELSE ErrnoName(code)

\* What child_process.spawnSync can return (SpawnSyncReturns<Buffer>) to a
\* call made with the given stdio; id is the id of the error object, if one
\* is made. The child ran and exited; or it was ended by a signal (status
\* null, no error); or it could not be started (error, status null, no
\* output); or, with pipes, the output outgrew maxBuffer (error ENOBUFS and
\* the output so far): spawnSync ended the child (status null, signal
\* SIGTERM), or the child had exited by then (its status, signal null).
SpawnSyncReturns(stdio, id) ==
    LET output == IF isPiped(stdio) THEN Some("text") ELSE None
    IN  {[error |-> None, status |-> Some(k), signal |-> None,
          stdout |-> output, stderr |-> output] : k \in ExitStatuses}
        \cup
        {[error |-> None, status |-> None, signal |-> Some("SIGTERM"),
          stdout |-> output, stderr |-> output]}
        \cup
        {[error |-> Some(SpawnError(id, code, spawnErrno(code))), status |-> None,
          signal |-> None, stdout |-> None, stderr |-> None] : code \in SpawnErrorCodes}
        \cup
        (IF isPiped(stdio)
         THEN {[error |-> Some(SpawnError(id, "ENOBUFS", spawnErrno("ENOBUFS"))),
                status |-> None, signal |-> Some("SIGTERM"),
                stdout |-> output, stderr |-> output]}
              \cup
              {[error |-> Some(SpawnError(id, "ENOBUFS", spawnErrno("ENOBUFS"))),
                status |-> Some(k), signal |-> None,
                stdout |-> output, stderr |-> output] : k \in ExitStatuses}
         ELSE {})

-----------------------------------------------------------------------------
(* Utilities.escapeShellParameter, Utilities._processResult *)

escapeShellParameter(parameter) == <<"\"">> \o parameter \o <<"\"">>

\* if (result.status): neither null nor 0
isTruthyStatus(status) == isSome(status) /\ valueOf(status) # 0

\* A slip of _processResult: the stderr text is left out of both messages.
processResultWithoutStderr(result, newId) ==
    IF isSome(result.error)
    THEN Threw([valueOf(result.error) EXCEPT !.message = @ \o <<EOL>>])
    ELSE IF isTruthyStatus(result.status)
    THEN Threw(NewError(newId, "_processResult",
               <<"The command failed with exit code ", ToString(valueOf(result.status)), EOL>>))
    ELSE Returned(None)

\* How _processResult(result) ends; newId is the id of the Error it makes.
processResult(result, newId) ==
    IF isSome(result.error)
    THEN \* lines 529-532: the error itself, its message extended
         Threw([valueOf(result.error) EXCEPT
                   !.message = @ \o <<EOL>>
                                 \o (IF isSome(result.stderr)
                                     THEN <<valueOf(result.stderr), EOL>>
                                     ELSE << >>)])
    ELSE IF isTruthyStatus(result.status)
    THEN \* lines 534-537
         Threw(NewError(newId, "_processResult",
               <<"The command failed with exit code ", ToString(valueOf(result.status)), EOL>>
               \o (IF isSome(result.stderr) THEN <<valueOf(result.stderr)>> ELSE << >>)))
    ELSE Returned(None)

-----------------------------------------------------------------------------
(* The calls of the execution entry points *)

MaxAttempts == 3

Commands == {<<"n","p","m">>, <<"g"," ","c">>}
ArgLists == {<< >>, << <<"i">>, <<"-"," ","x">> >>}
WorkingDirectory == <<"/","w">>
InstallDirectory == <<"/","d">>

\* An environment a caller supplies
SuppliedEnvironment ==
    [key \in {<<"P","a","t","h">>,
              <<"N","P","M","_","C","O","N","F","I","G","_","X">>,
              <<"i","n","i","t","_","c","w","d">>} |-> <<"2">>]

\* process.env while an entry point is called
ExecProcessEnv ==
    [key \in {<<"P","a","t","h">>,
              <<"C","o","m","S","p","e","c">>,
              <<"n","p","m","_","c","o","n","f","i","g","_","x">>,
              INIT_CWD} |-> <<"1">>]

SyncCall(entry, command, args, environment, suppressOutput, keepEnvironment, initCwd, captureOutput, maxAttempts, retryCallback) ==
    [entry |-> entry, command |-> command, args |-> args,
     workingDirectory |-> WorkingDirectory, environment |-> environment,
     suppressOutput |-> suppressOutput, keepEnvironment |-> keepEnvironment,
     initCwd |-> initCwd, captureOutput |-> captureOutput,
     maxAttempts |-> maxAttempts, retryCallback |-> retryCallback]

\* lines 217-220, 233-236, 248-250, 316-321: the parameters of each entry
\* point; a parameter an entry point does not have is set to its default.
Calls ==
    {SyncCall("executeCommand", c, a, e, s, k, << >>, FALSE, 1, FALSE) :
        c \in Commands, a \in ArgLists, e \in {None, Some(SuppliedEnvironment)},
        s \in BOOLEAN, k \in BOOLEAN}
    \cup
    {SyncCall("executeCommandAndCaptureOutput", c, a, e, FALSE, k, << >>, FALSE, 1, FALSE) :
        c \in Commands, a \in ArgLists, e \in {None, Some(SuppliedEnvironment)},
        k \in BOOLEAN}
    \cup
    {SyncCall("executeLifecycleCommand", c, << >>, None, FALSE, FALSE, i, o, 1, FALSE) :
        c \in Commands, i \in InitCwds, o \in BOOLEAN}
    \cup
    {SyncCall("executeCommandWithRetry", c, a, e, s, FALSE, << >>, FALSE, m, r) :
        c \in Commands, a \in ArgLists, e \in {None, Some(SuppliedEnvironment)},
        s \in BOOLEAN, m \in (-1)..MaxAttempts, r \in BOOLEAN}
    \cup
    \* lines 287-288, 356-361: the entry points that return the ChildProcess
    {SyncCall("executeCommandAsync", c, a, e, FALSE, FALSE, << >>, FALSE, 1, FALSE) :
        c \in Commands, a \in ArgLists, e \in {None, Some(SuppliedEnvironment)}}
    \cup
    {SyncCall("executeLifecycleCommandAsync", c, << >>, None, FALSE, FALSE, i, o, 1, FALSE) :
        c \in Commands, i \in InitCwds, o \in BOOLEAN}
    \cup
    \* lines 397-404: installPackageInDirectory(directory, packageName, version,
    \* tempPackageTitle, maxInstallAttempts, suppressOutput)
    {[SyncCall("installPackageInDirectory", << >>, << >>, None, s, FALSE, << >>, FALSE, m, FALSE)
         EXCEPT !.workingDirectory = InstallDirectory] :
        s \in BOOLEAN, m \in (-1)..MaxAttempts}

-----------------------------------------------------------------------------
(* Utilities.installPackageInDirectory *)

InstallPackageName == "p"
InstallVersion == "1.0.0"
TempPackageTitle == "t"

\* lines 410-418
npmPackageJson ==
    [dependencies |-> <<InstallPackageName, InstallVersion>>,
     description |-> "Temporary file generated by the Rush tool",
     name |-> TempPackageTitle,
     private |-> TRUE,
     version |-> "0.0.0"]

\* A package.json an earlier installation left
OldPackageJson == [npmPackageJson EXCEPT !.dependencies = <<InstallPackageName, "0.9.0">>]

\* What is at the directory: nothing, a file, or a folder with its items
\* (package.json apart) and its package.json; log is what was written to the
\* console about it.
InstallFolder(kind, items, packageJson) ==
    [kind |-> kind, items |-> items, packageJson |-> packageJson, log |-> << >>]

NoInstallFolder == InstallFolder("absent", {}, None)

InstallFolders ==
    {NoInstallFolder,
     InstallFolder("file", {}, None),
     InstallFolder("directory", {}, None),
     InstallFolder("directory", {"node_modules"}, Some(OldPackageJson))}

\* fsx.emptyDirSync(directory): the items of a folder are removed; a folder
\* is made where there is nothing; mkdirsSync throws where there is a file.
emptyDirSync(folder, id) ==
    IF folder.kind = "file"
    THEN [folder |-> folder,
          error |-> Some([id |-> id, origin |-> "emptyDirSync", code |-> "EEXIST",
                          errno |-> ErrnoNumber(-17),
                          message |-> <<"EEXIST: file already exists, mkdir">>])]
    ELSE [folder |-> [folder EXCEPT !.kind = "directory", !.items = {},
                                    !.packageJson = None],
          error |-> None]

\* lines 405-421: what installPackageInDirectory does to the directory
\* before it runs npm
prepareInstallFolder(folder, id) ==
    LET deleting == IF folder.kind # "absent"
                    THEN <<"Deleting old files from ">> ELSE << >>
        emptied == emptyDirSync(folder, id)
    IN  IF isSome(emptied.error)
        THEN [folder |-> [folder EXCEPT !.log = deleting], error |-> emptied.error]
        ELSE [folder |-> [emptied.folder EXCEPT
                             !.packageJson = Some(npmPackageJson),
                             !.log = deleting \o <<"Running \"npm install\" in ">>],
              error |-> None]

\* lines 424-426: the call of executeCommandWithRetry it ends with
installCommand(c, env) ==
    [SyncCall("executeCommandWithRetry", <<"n","p","m">>,
              << <<"i","n","s","t","a","l","l">> >>, Some(env), c.suppressOutput,
              FALSE, << >>, FALSE, c.maxAttempts, FALSE)
        EXCEPT !.workingDirectory = c.workingDirectory]

-----------------------------------------------------------------------------
(* Utilities._executeCommandInternal, Utilities.executeLifecycleCommand: the
   spawnSync calls they make *)

\* process.env.<name>: on win32 the names of process.env are found in any case
processEnvLookup(name) ==
    LET found == {key \in DOMAIN processEnv :
                     IF platform = "win32"
                     THEN toUpperCase(key) = toUpperCase(name)
                     ELSE key = name}
    IN  IF found = {} THEN None ELSE Some(processEnv[CHOOSE key \in found : TRUE])

\* lines 222-226, 239-240, 261: the stdio an entry point asks for
internalStdio(c) ==
    IF c.entry = "executeCommandAndCaptureOutput" THEN StdioPipe
    ELSE IF c.suppressOutput THEN StdioUndefined
    ELSE StdioInherit

\* lines 488-493
internalOptions(c) ==
    [cwd |-> c.workingDirectory,
     shell |-> TRUE,
     stdio |-> internalStdio(c),
     env |-> IF c.keepEnvironment
             THEN c.environment
             ELSE Some(createEnvironmentForRushCommand(platform, processEnv, << >>,
                                                       c.environment))]

\* lines 508-509
escapedCommand(command) ==
    IF ~containsChar(command, " ") THEN command ELSE escapeShellParameter(command)

\* line 511
escapedArgs(args) == [i \in 1..Len(args) |-> escapeShellParameter(args[i])]

\* lines 322-341: the spawnSync call of executeLifecycleCommand
lifecycleSpawn(c) ==
    LET comspec == processEnvLookup(<<"c","o","m","s","p","e","c">>)
        onWindows == platform = "win32"
        shellCommand == IF ~onWindows THEN <<"s","h">>
                        ELSE IF isSome(comspec) /\ valueOf(comspec) # << >>
                        THEN valueOf(comspec)
                        ELSE <<"c","m","d">>
        commandFlags == IF onWindows THEN <<"/","d"," ","/","s"," ","/","c">>
                        ELSE <<"-","c">>
    IN  [file |-> shellCommand,
         args |-> <<commandFlags, c.command>>,
         options |-> [cwd |-> c.workingDirectory,
                      shell |-> onWindows,
                      stdio |-> IF c.captureOutput THEN StdioPipe ELSE StdioInherit,
                      env |-> Some(createEnvironmentForRushCommand(
                                     platform, processEnv, c.initCwd, None))]]

\* lines 513-514: the first spawnSync call of _executeCommandInternal
internalSpawn(c) ==
    [file |-> escapedCommand(c.command),
     args |-> escapedArgs(c.args),
     options |-> internalOptions(c)]

\* line 520: the spawnSync call made after ENOENT
cmdSpawn(c) ==
    [file |-> c.command \o <<".","c","m","d">>,
     args |-> c.args,
     options |-> internalOptions(c)]

\* lines 292-304: the spawn call of executeCommandAsync; cmdExists is what
\* fsx.existsSync(command + '.cmd') answers
asyncSpawn(c, cmdExists) ==
    LET command == IF cmdExists THEN c.command \o <<".","c","m","d">> ELSE c.command
    IN  [file |-> escapeShellParameter(command),
         args |-> [i \in 1..Len(c.args) |-> escapeShellParameter(c.args[i])],
         options |-> [cwd |-> c.workingDirectory,
                      shell |-> TRUE,
                      stdio |-> StdioUndefined,
                      env |-> Some(createEnvironmentForRushCommand(
                                     platform, processEnv, << >>, c.environment))]]

\* lines 362-381: the spawn call of executeLifecycleCommandAsync, made with
\* the shell, flags and options executeLifecycleCommand computes
lifecycleAsyncSpawn(c) == lifecycleSpawn(c)

firstSpawn(c) ==
    IF c.entry = "executeLifecycleCommand" THEN lifecycleSpawn(c) ELSE internalSpawn(c)

\* A slip of line 517: any spawn error is taken for ENOENT.
isEnoentAnyError(result) == isSome(result.error)

\* line 517: result.error && result.error.errno === 'ENOENT'
isEnoent(result) ==
    /\ isSome(result.error)
    /\ valueOf(result.error).errno.type = "string"
    /\ valueOf(result.error).errno.name = "ENOENT"

\* A slip of line 267: one attempt too many
hasAttemptsLeftInclusive(attempt, maxAttempts) == attempt <= maxAttempts

\* line 267
hasAttemptsLeft(attempt, maxAttempts) == attempt < maxAttempts

\* A slip of line 252
isInvalidMaxAttemptsBelowZero(maxAttempts) == maxAttempts < 0

\* line 252
isInvalidMaxAttempts(maxAttempts) == maxAttempts < 1

lastResult == results[Len(results)]

-----------------------------------------------------------------------------
(* The steps of a call *)

NoCall == SyncCall("none", << >>, << >>, None, FALSE, FALSE, << >>, FALSE, 1, FALSE)

\* No entry point is being called.
ExecIdle ==
    /\ pc = "Idle"
    /\ call = NoCall
    /\ attemptNumber = 0
    /\ spawned = << >>
    /\ results = << >>
    /\ reported = NoOutcome
    /\ callOutcome = NoOutcome
    /\ spawnCount = 0
    /\ executions = 0
    /\ callbacks = 0
    /\ errorCount = 0

\* The sanitizer is not being called on its own.
EnvIdle ==
    /\ envPc = "idle"
    /\ envInitial = None
    /\ envInitCwd = << >>
    /\ envOut = NoEnvironment
    /\ envOut2 = NoEnvironment

\* retryUntilTimeout is not being called.
RetryIdle ==
    /\ rtPc = "Idle"
    /\ now = 0
    /\ maxWaitTimeMs = 0
    /\ startTime = 0
    /\ looped = FALSE
    /\ fnCalls = 0
    /\ lastError = None
    /\ rtResult = None
    /\ rtOutcome = NoOutcome
    /\ failedAt = 0
    /\ factoryCalls = 0
    /\ stallLogs = 0

\* The purge action is not being run.
PurgeIdle ==
    /\ purgePc = "Idle"
    /\ unsafeFlag = FALSE
    /\ purgeCalls = << >>
    /\ registered = {}
    /\ pending = {}
    /\ onDisk = {}
    /\ deleted = {}
    /\ failures = {}
    /\ raised = FALSE
    /\ reports = 0

\* dangerouslyDeletePath is not being called.
FsIdle ==
    /\ fsPc = "Idle"
    /\ folderName = << >>
    /\ fs = << >>
    /\ locked = {}
    /\ deletions = << >>

\* No run of invocations is followed.
IsoIdle ==
    /\ envObjects = << >>
    /\ childEnvs = << >>

\* installPackageInDirectory is not being called.
InstallIdle == installFolder = NoInstallFolder

isRetry == call.entry = "executeCommandWithRetry"

\* The entry points that return the ChildProcess without waiting for it
isAsync == call.entry \in {"executeCommandAsync", "executeLifecycleCommandAsync"}

ChildProcess == "ChildProcess"

\* The entry point is entered. executeCommandWithRetry (lines 252-256) throws
\* when maxAttempts is invalid and else starts attempt 1; the others go
\* straight to their spawnSync call.
Call ==
    /\ pc = "Pending"
    /\ call.entry # "installPackageInDirectory"
    /\ IF isRetry /\ isInvalidMaxAttempts(call.maxAttempts)
       THEN /\ callOutcome' = Threw(NewError(errorCount + 1, "executeCommandWithRetry",
                                 <<"The maxAttempts parameter cannot be less than 1">>))
            /\ errorCount' = errorCount + 1
            /\ pc' = "Done"
            /\ UNCHANGED <<attemptNumber, executions>>
       ELSE /\ attemptNumber' = IF isRetry THEN 1 ELSE attemptNumber
            /\ executions' = executions + 1
            /\ pc' = "Spawning"
            /\ UNCHANGED <<callOutcome, errorCount>>
    /\ UNCHANGED <<call, spawned, results, reported, spawnCount, callbacks>>
    /\ UNCHANGED exceptExec

\* lines 405-426: installPackageInDirectory empties the directory, saves
\* package.json there and calls executeCommandWithRetry with a sanitized copy
\* of process.env; or emptyDirSync throws, and nothing else is done
InstallPackageInDirectory ==
    /\ pc = "Pending"
    /\ call.entry = "installPackageInDirectory"
    /\ LET prepared == prepareInstallFolder(installFolder, errorCount + 1)
       IN  /\ installFolder' = prepared.folder
           /\ IF isSome(prepared.error)
              THEN /\ callOutcome' = Threw(valueOf(prepared.error))
                   /\ errorCount' = errorCount + 1
                   /\ pc' = "Done"
                   /\ UNCHANGED call
              ELSE /\ call' = installCommand(call, createEnvironmentForRushCommand(
                                                     platform, processEnv, << >>, None))
                   /\ UNCHANGED <<pc, callOutcome, errorCount>>
    /\ UNCHANGED <<attemptNumber, spawned, results, reported, spawnCount,
                   executions, callbacks>>
    /\ UNCHANGED <<processVars, envVars, retryVars, purgeVars, fsVars, isoVars>>

\* lines 513-514, 333-341: child_process.spawnSync returns
SpawnSync ==
    /\ pc = "Spawning"
    /\ ~isAsync
    /\ \E result \in SpawnSyncReturns(firstSpawn(call).options.stdio, errorCount + 1) :
          /\ results' = <<result>>
          /\ errorCount' = IF isSome(result.error) THEN errorCount + 1 ELSE errorCount
    /\ spawned' = <<firstSpawn(call)>>
    /\ spawnCount' = spawnCount + 1
    /\ pc' = "Spawned"
    /\ UNCHANGED <<call, attemptNumber, reported, callOutcome, executions, callbacks>>
    /\ UNCHANGED exceptExec

\* The errors of starting the child that child_process.spawn throws at once
\* (ENOENT, EACCES and the like are emitted by the ChildProcess later): the
\* working directory is a file
SpawnThrowCodes == {"ENOTDIR"}

\* The error child_process.spawn throws
SpawnThrown(id, code, errno) ==
    [id |-> id, origin |-> "spawn", code |-> code, errno |-> errno,
     message |-> <<"spawn " \o code>>]

\* What a call of child_process.spawn ends with: the ChildProcess returned, or
\* an error thrown
SpawnOutcomes(id) ==
    {Returned(Some(ChildProcess))}
    \cup {Threw(SpawnThrown(id, code, spawnErrno(code))) : code \in SpawnThrowCodes}

\* lines 300-304, 372-381: child_process.spawn returns the ChildProcess, which
\* the entry point returns to its caller, or it throws, and the entry point,
\* which has no try, throws that error
SpawnAsync ==
    /\ pc = "Spawning"
    /\ isAsync
    /\ IF call.entry = "executeCommandAsync"
       THEN \E cmdExists \in BOOLEAN : spawned' = <<asyncSpawn(call, cmdExists)>>
       ELSE spawned' = <<lifecycleAsyncSpawn(call)>>
    /\ spawnCount' = spawnCount + 1
    /\ \E outcome \in SpawnOutcomes(errorCount + 1) :
          /\ callOutcome' = outcome
          /\ errorCount' = IF outcome.kind = "threw" THEN errorCount + 1 ELSE errorCount
    /\ pc' = "Done"
    /\ UNCHANGED <<call, attemptNumber, results, reported, executions, callbacks>>
    /\ UNCHANGED exceptExec

\* Whether _executeCommandInternal spawns again (line 517)
fallbackNeeded ==
    /\ call.entry # "executeLifecycleCommand"
    /\ isEnoent(results[1])

\* lines 517-521: the spawnSync call with '.cmd' appended returns
SpawnSyncCmd ==
    /\ pc = "Spawned"
    /\ fallbackNeeded
    /\ \E result \in SpawnSyncReturns(cmdSpawn(call).options.stdio, errorCount + 1) :
          /\ results' = Append(results, result)
          /\ errorCount' = IF isSome(result.error) THEN errorCount + 1 ELSE errorCount
    /\ spawned' = Append(spawned, cmdSpawn(call))
    /\ spawnCount' = spawnCount + 1
    /\ pc' = "Respawned"
    /\ UNCHANGED <<call, attemptNumber, reported, callOutcome, executions, callbacks>>
    /\ UNCHANGED exceptExec

\* lines 524-525, 343-344: _processResult(result); return result
ProcessResult ==
    /\ \/ pc = "Spawned" /\ ~fallbackNeeded
       \/ pc = "Respawned"
    /\ LET ended == processResult(lastResult, errorCount + 1)
       IN  /\ reported' = IF ended.kind = "returned"
                          THEN Returned(Some(lastResult))
                          ELSE ended
           /\ errorCount' = IF ended.kind = "threw" /\ ~isSome(lastResult.error)
                            THEN errorCount + 1
                            ELSE errorCount
    /\ pc' = "Reported"
    /\ UNCHANGED <<call, attemptNumber, spawned, results, callOutcome,
                   spawnCount, executions, callbacks>>
    /\ UNCHANGED exceptExec

\* What the entry point makes of a synchronous execution that returned:
\* executeCommand returns nothing (lines 222-226), executeCommandAndCaptureOutput
\* result.stdout.toString() (line 242), executeLifecycleCommand the result
\* (line 344).
returnValue(c, result, newId) ==
    IF c.entry = "executeCommand" THEN Returned(None)
    ELSE IF c.entry = "executeCommandAndCaptureOutput"
    THEN IF isSome(result.stdout)
         THEN Returned(Some(valueOf(result.stdout)))
         ELSE Threw(NewError(newId, "executeCommandAndCaptureOutput",
                             <<"TypeError: Cannot read property 'toString' of null">>))
    ELSE Returned(Some(result))

\* executeCommand, executeCommandAndCaptureOutput, executeLifecycleCommand end:
\* with the error of the synchronous execution, or with their return value
ReturnToCaller ==
    /\ pc = "Reported"
    /\ ~isRetry
    /\ LET ended == IF reported.kind = "threw"
                    THEN reported
                    ELSE returnValue(call, lastResult, errorCount + 1)
       IN  /\ callOutcome' = ended
           /\ errorCount' = IF reported.kind # "threw" /\ ended.kind = "threw"
                            THEN errorCount + 1
                            ELSE errorCount
    /\ pc' = "Done"
    /\ UNCHANGED <<call, attemptNumber, spawned, results, reported,
                   spawnCount, executions, callbacks>>
    /\ UNCHANGED exceptExec

\* lines 259-280: executeCommand has returned to the loop of
\* executeCommandWithRetry, or thrown into its catch block
AttemptEnded ==
    /\ pc = "Reported"
    /\ isRetry
    /\ IF reported.kind = "returned"
       THEN \* line 279: break
            /\ callOutcome' = Returned(None)
            /\ pc' = "Done"
            /\ UNCHANGED <<attemptNumber, spawned, results, reported, executions>>
       ELSE IF hasAttemptsLeft(attemptNumber, call.maxAttempts)
       THEN \* lines 267-273
            /\ attemptNumber' = attemptNumber + 1
            /\ IF call.retryCallback
               THEN /\ pc' = "Callback"
                    /\ UNCHANGED <<spawned, results, reported, executions>>
               ELSE /\ pc' = "Spawning"
                    /\ executions' = executions + 1
                    /\ spawned' = << >>
                    /\ results' = << >>
                    /\ reported' = NoOutcome
            /\ UNCHANGED callOutcome
       ELSE \* lines 275-276: throw error
            /\ callOutcome' = reported
            /\ pc' = "Done"
            /\ UNCHANGED <<attemptNumber, spawned, results, reported, executions>>
    /\ UNCHANGED <<call, spawnCount, callbacks, errorCount>>
    /\ UNCHANGED exceptExec

\* A slip of lines 264-276: what the callback throws is caught, and the
\* command's error is thrown in its place.
thrownFromCatchBlockCommandError(commandOutcome, callbackError) == commandOutcome

\* lines 264-273: retryCallback() is called in the catch block and in no try
\* block of its own, so what it throws leaves executeCommandWithRetry, and the
\* error that was caught is dropped
thrownFromCatchBlock(commandOutcome, callbackError) == Threw(callbackError)

\* lines 270-273: retryCallback() returns, and the loop continues, or it
\* throws out of executeCommandWithRetry
RetryCallback ==
    /\ pc = "Callback"
    /\ callbacks' = callbacks + 1
    /\ \/ /\ pc' = "Spawning"
          /\ executions' = executions + 1
          /\ spawned' = << >>
          /\ results' = << >>
          /\ reported' = NoOutcome
          /\ UNCHANGED <<callOutcome, errorCount>>
       \/ /\ callOutcome' = thrownFromCatchBlock(reported,
                               NewError(errorCount + 1, "retryCallback",
                                        <<"retryCallback failed">>))
          /\ errorCount' = errorCount + 1
          /\ pc' = "Done"
          /\ UNCHANGED <<spawned, results, reported, executions>>
    /\ UNCHANGED <<call, attemptNumber, spawnCount>>
    /\ UNCHANGED exceptExec

Init ==
    /\ platform \in Platforms
    /\ processEnv = ExecProcessEnv
    /\ errnoIsNumber \in BOOLEAN
    /\ EnvIdle
    /\ RetryIdle
    /\ PurgeIdle
    /\ FsIdle
    /\ IsoIdle
    /\ pc = "Pending"
    /\ call \in Calls
    /\ IF call.entry = "installPackageInDirectory"
       THEN installFolder \in InstallFolders
       ELSE InstallIdle
    /\ attemptNumber = 0
    /\ spawned = << >>
    /\ results = << >>
    /\ reported = NoOutcome
    /\ callOutcome = NoOutcome
    /\ spawnCount = 0
    /\ executions = 0
    /\ callbacks = 0
    /\ errorCount = 0

Next ==
    \/ Call
    \/ InstallPackageInDirectory
    \/ SpawnSync
    \/ SpawnAsync
    \/ SpawnSyncCmd
    \/ ProcessResult
    \/ ReturnToCaller
    \/ AttemptEnded
    \/ RetryCallback

Spec == Init /\ [][Next]_vars

-----------------------------------------------------------------------------
(* Claims about the execution entry points *)

\* Whether the text of an error has the given part
hasPart(error, part) == \E i \in DOMAIN error.message : error.message[i] = part

\* The synchronous execution has ended (it returned or threw).
hasReported == pc \in {"Reported", "Callback", "Done"} /\ results # << >>

\* The retryCallback invocations there are after n failed attempts that were
\* each followed by another attempt: n with a callback, none without.
callbacksAfter(n) == IF call.retryCallback THEN n ELSE 0

\* C5: executeCommandWithRetry with maxAttempts = M >= 1, whose callback
\* returns: when every attempt fails the command is executed M times, the
\* callback invoked M-1 times, each time after a failed attempt and before
\* the next one, and the error thrown is the error of attempt M itself; when
\* attempt k succeeds there is no further attempt and the callback has been
\* invoked k-1 times.
C5_AttemptBudget ==
    (isRetry /\ call.maxAttempts >= 1) =>
        /\ executions <= call.maxAttempts
        /\ pc \in {"Spawning", "Spawned", "Respawned", "Reported"} =>
              (executions = attemptNumber /\ callbacks = callbacksAfter(executions - 1))
        /\ pc = "Callback" =>
              /\ reported.kind = "threw"
              /\ executions = attemptNumber - 1
              /\ callbacks = executions - 1
              /\ executions < call.maxAttempts
        /\ (pc = "Done" /\ callOutcome.kind = "returned") =>
              /\ reported.kind = "returned"
              /\ executions = attemptNumber
              /\ callbacks = callbacksAfter(executions - 1)
        /\ (/\ pc = "Done"
            /\ callOutcome.kind = "threw"
            /\ valueOf(callOutcome.error).origin # "retryCallback") =>
              /\ executions = call.maxAttempts
              /\ callbacks = callbacksAfter(call.maxAttempts - 1)
              /\ reported.kind = "threw"
              /\ callOutcome.error = reported.error
              /\ valueOf(callOutcome.error).id = errorCount

\* C5's case: three attempts failed, and the call threw.
C5_Witness ==
    /\ isRetry
    /\ call.retryCallback
    /\ call.maxAttempts = 3
    /\ pc = "Done"
    /\ callOutcome.kind = "threw"
    /\ valueOf(callOutcome.error).origin # "retryCallback"
    /\ executions = 3
    /\ callbacks = 2

\* C6: executeCommandWithRetry called with maxAttempts < 1 throws at once:
\* nothing is spawned, the callback is not invoked, nothing is retried.
C6_InvalidMaxAttempts ==
    (isRetry /\ call.maxAttempts < 1) =>
        /\ pc \in {"Pending", "Done"}
        /\ spawnCount = 0
        /\ executions = 0
        /\ callbacks = 0
        /\ pc = "Done" =>
              /\ callOutcome.kind = "threw"
              /\ valueOf(callOutcome.error).origin = "executeCommandWithRetry"

\* C6's case: the call with maxAttempts = 0 has ended.
C6_Witness ==
    /\ isRetry
    /\ call.maxAttempts = 0
    /\ pc = "Done"
    /\ callOutcome.kind = "threw"

isSyncEntry ==
    call.entry \in {"executeCommand", "executeCommandAndCaptureOutput",
                    "executeLifecycleCommand"}

\* C7: executeCommand, executeCommandAndCaptureOutput and
\* executeLifecycleCommand: when the child started and exited with status 0
\* the call returns its result and throws nothing; when it exited with a
\* status k other than 0 the call throws an error that carries k.
C7_ExitCodeFidelity ==
    (isSyncEntry /\ pc = "Done" /\ results # << >>) =>
        /\ lastResult.status = Some(0) =>
              /\ callOutcome.kind = "returned"
              /\ call.entry = "executeCommandAndCaptureOutput" =>
                    callOutcome.value = lastResult.stdout
              /\ call.entry = "executeLifecycleCommand" =>
                    callOutcome.value = Some(lastResult)
        /\ \A k \in ExitStatuses \ {0} :
              lastResult.status = Some(k) =>
                 /\ callOutcome.kind = "threw"
                 /\ hasPart(valueOf(callOutcome.error), ToString(k))

\* C8: _processResult tells a spawn failure from a non-zero exit. With a
\* spawn error in the result it throws that error object, its message
\* extended by the captured stderr if there is any, whatever the status;
\* with no spawn error and a non-zero status it throws a new error whose
\* text has the status and the captured stderr if there is any. An error it
\* throws is of one kind or of the other.
C8_FailureClassification ==
    hasReported =>
        LET error == lastResult.error
            stderr == lastResult.stderr
        IN  /\ isSome(error) =>
                  /\ reported.kind = "threw"
                  /\ valueOf(reported.error).id = valueOf(error).id
                  /\ valueOf(reported.error).origin = "spawnSync"
                  /\ valueOf(reported.error).code = valueOf(error).code
                  /\ valueOf(reported.error).errno = valueOf(error).errno
                  /\ valueOf(reported.error).message =
                        valueOf(error).message \o <<EOL>>
                        \o (IF isSome(stderr) THEN <<valueOf(stderr), EOL>> ELSE << >>)
            /\ (~isSome(error) /\ isTruthyStatus(lastResult.status)) =>
                  /\ reported.kind = "threw"
                  /\ valueOf(reported.error).origin = "_processResult"
                  /\ \A i \in DOMAIN results :
                        isSome(results[i].error) =>
                           valueOf(results[i].error).id # valueOf(reported.error).id
                  /\ valueOf(reported.error).message =
                        <<"The command failed with exit code ",
                          ToString(valueOf(lastResult.status)), EOL>>
                        \o (IF isSome(stderr) THEN <<valueOf(stderr)>> ELSE << >>)
            /\ reported.kind = "threw" =>
                  (valueOf(reported.error).origin = "spawnSync" <=> isSome(error))

\* C8's case: a result with a spawn error, an exit status other than 0 and
\* captured stderr (the output outgrew maxBuffer and the child had exited with
\* status 2), and the error thrown is that of spawnSync.
C8_Witness ==
    /\ hasReported
    /\ isSome(lastResult.error)
    /\ valueOf(lastResult.error).code = "ENOBUFS"
    /\ lastResult.status = Some(2)
    /\ isSome(lastResult.stderr)
    /\ reported.kind = "threw"
    /\ valueOf(reported.error).origin = "spawnSync"

\* C9: a synchronous execution returns only when the child was started and
\* its exit status is there and is 0; with a spawn error, a status other
\* than 0 or no status, an error reaches the caller.
C9_NoSilentFailure ==
    (isSyncEntry /\ pc = "Done" /\ callOutcome.kind = "returned") =>
        (~isSome(lastResult.error) /\ lastResult.status = Some(0))

\* The entry points that run the command with _executeCommandInternal
usesExecuteCommandInternal ==
    call.entry \in {"executeCommand", "executeCommandAndCaptureOutput",
                    "executeCommandWithRetry"}

\* The result of a spawn that found no executable: an error named ENOENT
reportsNotFound(result) ==
    \E error \in {result.error[i] : i \in DOMAIN result.error} : error.code = "ENOENT"

\* C10: _executeCommandInternal calls spawnSync at most twice; the second
\* time if and only if the first result has an ENOENT error, with the
\* command followed by '.cmd' and the options of the first call; what it
\* returns or throws is what the last call gave, and ENOENT from the second
\* call is not retried.
C10_EnoentFallback ==
    usesExecuteCommandInternal =>
        /\ Len(spawned) <= 2
        /\ Len(results) = Len(spawned)
        /\ Len(spawned) = 2 =>
              /\ reportsNotFound(results[1])
              /\ spawned[2].file = call.command \o <<".","c","m","d">>
              /\ spawned[2].options = spawned[1].options
        /\ hasReported =>
              /\ Len(spawned) = 2 <=> reportsNotFound(results[1])
              /\ reported.kind = "returned" =>
                    (/\ reported.value = Some(lastResult)
                     /\ ~isSome(lastResult.error))
              /\ (reported.kind = "threw" /\ isSome(lastResult.error)) =>
                    valueOf(reported.error).id = valueOf(lastResult.error).id
              /\ (reported.kind = "threw" /\ ~isSome(lastResult.error)) =>
                    /\ isSome(lastResult.status)
                    /\ hasPart(valueOf(reported.error), ToString(valueOf(lastResult.status)))

-----------------------------------------------------------------------------
(* The states of one synchronous execution *)

\* The state of the synchronous execution under way, from where the call is,
\* the executions begun and the results so far: Pending until it begins,
\* Spawning when spawnSync is about to be called, SpawnFailed or Exited when
\* spawnSync has returned with or without an error, Reported from when
\* _processResult has returned or thrown
invocationState(at, begun, resultsSoFar) ==
    IF at = "Pending" \/ begun = 0 THEN "Pending"
    ELSE IF at = "Spawning" THEN "Spawning"
    ELSE IF at \in {"Spawned", "Respawned"}
    THEN IF isSome(resultsSoFar[Len(resultsSoFar)].error) THEN "SpawnFailed" ELSE "Exited"
    ELSE "Reported"

\* The step stays within one synchronous execution: none is begun by it,
\* but for the first.
withinInvocation == pc = "Pending" \/ executions' = executions

\* The transitions of Pending -> Spawning -> (Exited | SpawnFailed) -> Reported;
\* Running is passed inside spawnSync, which returns when the child has ended.
StateMachine ==
    {<<"Pending", "Spawning">>, <<"Spawning", "Exited">>, <<"Spawning", "SpawnFailed">>,
     <<"Exited", "Reported">>, <<"SpawnFailed", "Reported">>}

\* C17: a synchronous execution goes from Pending to Spawning, from there to
\* Exited or to SpawnFailed, and from there to Reported; it makes no other
\* transition, and after SpawnFailed no further spawn; nothing leaves
\* Reported, which is entered once.
C17_StateMachine ==
    [][(~isAsync /\ withinInvocation) =>
          LET from == invocationState(pc, executions, results)
              to == invocationState(pc', executions', results')
          IN  \/ <<from, to>> \in StateMachine
              \/ from = to /\ spawnCount' = spawnCount]_vars

\* An execution that has begun and is not Reported has a step to take.
notStuckBeforeReported ==
    (~isAsync /\ invocationState(pc, executions, results) \in {"Spawning", "Exited", "SpawnFailed"})
        => ENABLED (SpawnSync \/ SpawnSyncCmd \/ ProcessResult)

\* C17 with the transition the code has besides: after SpawnFailed with
\* ENOENT from its first spawn, an execution that is not that of a lifecycle
\* command spawns once more, and is then in Exited or SpawnFailed again. An
\* execution is never stuck before Reported.
C17_StateMachineWithFallback ==
    /\ []notStuckBeforeReported
    /\ [][(~isAsync /\ withinInvocation) =>
          LET from == invocationState(pc, executions, results)
              to == invocationState(pc', executions', results')
          IN  \/ <<from, to>> \in StateMachine
              \/ from = to /\ spawnCount' = spawnCount
              \/ /\ from = "SpawnFailed"
                 /\ to \in {"Exited", "SpawnFailed"}
                 /\ Len(results) = 1
                 /\ reportsNotFound(results[1])
                 /\ usesExecuteCommandInternal
                 /\ spawnCount' = spawnCount + 1
                 /\ Len(results') = 2]_vars

\* C17's case: an execution is Reported, with a normal return, after the
\* spawn that followed ENOENT.
C17_Witness ==
    /\ invocationState(pc, executions, results) = "Reported"
    /\ pc = "Reported"
    /\ Len(results) = 2
    /\ reportsNotFound(results[1])
    /\ reported.kind = "returned"

-----------------------------------------------------------------------------
(* The environment, command and arguments handed to the child *)

\* The environment an invocation starts from: the one supplied, else process.env
baseEnvironment(c) ==
    IF isSome(c.environment) THEN valueOf(c.environment) ELSE processEnv

\* A variable name that matches NPM_CONFIG_* in any case
isNpmConfigKey(key) == startsWith(toUpperCase(key), NPM_CONFIG_)

isLifecycleEntry ==
    call.entry \in {"executeLifecycleCommand", "executeLifecycleCommandAsync"}

\* The sanitizer's output without the keys the child was handed nothing for
keepsVerbatim(env) == isSome(call.environment) => env = call.environment

isSanitizedFor(env, initCwd) ==
    /\ isSome(env)
    /\ valueOf(env) = createEnvironmentForRushCommand(platform, processEnv, initCwd,
                                                      call.environment)

\* C11: at every spawn of every entry point the child is handed the
\* sanitizer's output for the base environment of the invocation, unless
\* keepEnvironment is set, and then it is handed exactly the environment
\* supplied; the child of executeLifecycleCommand is handed INIT_CWD = initCwd
\* and no inherited variable whose name matches NPM_CONFIG_* in any case.
C11_EnvironmentPolicy ==
    \A i \in DOMAIN spawned :
        LET env == spawned[i].options.env
        IN  /\ call.keepEnvironment => keepsVerbatim(env)
            /\ ~call.keepEnvironment => isSanitizedFor(env, call.initCwd)
            /\ isLifecycleEntry =>
                  /\ call.initCwd # << >> =>
                        /\ INIT_CWD \in DOMAIN valueOf(env)
                        /\ valueOf(env)[INIT_CWD] = call.initCwd
                  /\ \A key \in DOMAIN baseEnvironment(call) :
                        isNpmConfigKey(key) => key \notin DOMAIN valueOf(env)

\* The words a shell makes of a text: blanks outside double quotes part the
\* words, and the double quotes themselves are taken away. word is the word
\* being read, opened whether there is one, quoted whether a quote is open.
RECURSIVE shellWords(_, _, _, _)
shellWords(text, word, quoted, opened) ==
    IF text = << >>
    THEN IF opened THEN <<word>> ELSE << >>
    ELSE IF Head(text) = "\""
    THEN shellWords(Tail(text), word, ~quoted, TRUE)
    ELSE IF Head(text) = " " /\ ~quoted
    THEN (IF opened THEN <<word>> ELSE << >>)
         \o shellWords(Tail(text), << >>, FALSE, FALSE)
    ELSE shellWords(Tail(text), Append(word, Head(text)), quoted, TRUE)

shellParse(text) == shellWords(text, << >>, FALSE, FALSE)

\* The command a spawn is meant to start: the caller's command, followed by
\* '.cmd' in the spawn made after ENOENT (line 520) and in the spawn of
\* executeCommandAsync when that file exists (lines 292-294)
commandTokens(i) ==
    IF call.entry = "executeCommandAsync"
    THEN {call.command, call.command \o <<".","c","m","d">>}
    ELSE IF i = 2 THEN {call.command \o <<".","c","m","d">>}
    ELSE {call.command}

\* The entry points that hand a command and arguments to a shell
passesTokens == usesExecuteCommandInternal \/ call.entry = "executeCommandAsync"

\* What a token is handed to the spawn call as, when the claim of C12 is kept
roundTrips(token, passed) ==
    IF containsChar(token, " ")
    THEN shellParse(passed) = <<token>>
    ELSE passed = token

\* C12: at every spawn of a command with arguments, a command or argument
\* that contains a space is handed over as a text the shell parses back to
\* that one literal token, and a command or argument without a space is
\* handed over as it is, not wrapped in quotes.
C12_EscapingRoundTrip ==
    passesTokens =>
        \A i \in DOMAIN spawned :
            /\ \E command \in commandTokens(i) : roundTrips(command, spawned[i].file)
            /\ Len(spawned[i].args) = Len(call.args)
            /\ \A k \in DOMAIN call.args : roundTrips(call.args[k], spawned[i].args[k])

\* The text is the token between two double quotes.
isWrapped(text, token) ==
    /\ Len(text) = Len(token) + 2
    /\ text[1] = "\""
    /\ text[Len(text)] = "\""
    /\ SubSeq(text, 2, Len(text) - 1) = token

\* C18: at every spawn of executeCommand, executeCommandAndCaptureOutput
\* (the spawn made after ENOENT among them) and executeCommandAsync, every
\* argument is handed over wrapped in double quotes, and the command is
\* handed over wrapped in double quotes if it contains a space and as it is
\* if it does not.
C18_EscapingAsymmetry ==
    passesTokens =>
        \A i \in DOMAIN spawned :
            /\ Len(spawned[i].args) = Len(call.args)
            /\ \A k \in DOMAIN call.args : isWrapped(spawned[i].args[k], call.args[k])
            /\ \E command \in commandTokens(i) :
                  IF containsChar(command, " ")
                  THEN isWrapped(spawned[i].file, command)
                  ELSE spawned[i].file = command

-----------------------------------------------------------------------------
(* The sanitizer called on its own *)

\* The base environment of the call: the argument, or process.env
envBase == IF isSome(envInitial) THEN valueOf(envInitial) ELSE processEnv

\* process.env when the caller supplies an environment of its own
DefaultProcessEnv ==
    [key \in {<<"P","a","t","h">>, <<"n","p","m","_","c","o","n","f","i","g","_","x">>}
        |-> <<"1">>]

EnvInit ==
    /\ ExecIdle
    /\ RetryIdle
    /\ PurgeIdle
    /\ FsIdle
    /\ IsoIdle
    /\ InstallIdle
    /\ envPc = "start"
    /\ platform \in Platforms
    /\ envInitCwd \in InitCwds
    /\ \/ /\ envInitial = None
          /\ processEnv \in Environments
       \/ /\ envInitial \in {Some(env) : env \in Environments}
          /\ processEnv = DefaultProcessEnv
    /\ errnoIsNumber = FALSE
    /\ envOut = NoEnvironment
    /\ envOut2 = NoEnvironment

\* _createEnvironmentForRushCommand(initCwd, initialEnvironment)
Sanitize ==
    /\ envPc = "start"
    /\ envOut' = createEnvironmentForRushCommand(platform, processEnv,
                                                 envInitCwd, envInitial)
    /\ envPc' = "sanitized"
    /\ UNCHANGED <<envInitial, envInitCwd, envOut2>>
    /\ UNCHANGED exceptEnv

\* _createEnvironmentForRushCommand('', <the environment returned before>)
Resanitize ==
    /\ envPc = "sanitized"
    /\ envOut2' = createEnvironmentForRushCommand(platform, processEnv, << >>,
                                                  Some(envOut))
    /\ envPc' = "resanitized"
    /\ UNCHANGED <<envInitial, envInitCwd, envOut>>
    /\ UNCHANGED exceptEnv

EnvNext == Sanitize \/ Resanitize

SpecEnv == EnvInit /\ [][EnvNext]_vars

-----------------------------------------------------------------------------
(* Claims about the sanitizer *)

\* C1: the environment built by the sanitizer holds no key matching
\* NPM_CONFIG_* in any letter case and no inherited INIT_CWD entry; with a
\* non-empty initCwd it holds exactly INIT_CWD = initCwd, with an empty one
\* no INIT_CWD key; every other base entry is passed through unchanged.
C1_SanitizedInAnyCase ==
    envPc = "sanitized" =>
        /\ \A key \in DOMAIN envOut :
              ~startsWith(toUpperCase(key), NPM_CONFIG_)
        /\ IF envInitCwd # << >>
           THEN INIT_CWD \in DOMAIN envOut /\ envOut[INIT_CWD] = envInitCwd
           ELSE INIT_CWD \notin DOMAIN envOut
        /\ \A key \in DOMAIN envBase :
              (/\ toUpperCase(key) # INIT_CWD
               /\ ~startsWith(toUpperCase(key), NPM_CONFIG_))
                 => (key \in DOMAIN envOut /\ envOut[key] = envBase[key])

\* C2: sanitization is idempotent: sanitizing, with no initCwd, an
\* environment that was sanitized with no initCwd returns an environment
\* with the same keys and the same values, on either platform.
C2_SanitizeIdempotent ==
    (envPc = "resanitized" /\ envInitCwd = << >>) => envOut2 = envOut

\* C2's case: an environment that lost entries was sanitized a second time.
C2_Witness ==
    /\ envPc = "resanitized"
    /\ envInitCwd = << >>
    /\ platform = "win32"
    /\ DOMAIN envOut # DOMAIN envBase
    /\ DOMAIN envOut # {}

\* The last retryCallback invocation did not return: no execution followed it.
callbackThrew ==
    /\ isRetry
    /\ pc = "Done"
    /\ callbacks >= 1
    /\ executions = callbacks

\* C23: when retryCallback throws after failed attempt k < maxAttempts,
\* executeCommandWithRetry ends there: the command has been executed k times
\* and is not executed again, and the error thrown to the caller is the
\* callback's, not the error of attempt k.
C23_CallbackThrows ==
    /\ callbackThrew =>
          /\ executions < call.maxAttempts
          /\ attemptNumber = executions + 1
          /\ spawnCount >= executions
          /\ reported.kind = "threw"
          /\ callOutcome.kind = "threw"
          /\ valueOf(callOutcome.error).origin = "retryCallback"
          /\ callOutcome.error # reported.error
          /\ valueOf(callOutcome.error).id # valueOf(reported.error).id
    /\ (/\ isRetry
        /\ callOutcome.kind = "threw"
        /\ valueOf(callOutcome.error).origin = "retryCallback") => callbackThrew

\* C23's case: the callback threw after the second of three attempts.
C23_Witness ==
    /\ callbackThrew
    /\ call.maxAttempts = 3
    /\ executions = 2
    /\ callbacks = 2
    /\ valueOf(callOutcome.error).origin = "retryCallback"

-----------------------------------------------------------------------------
(* Utilities.retryUntilTimeout *)

MaxClock == 4
MaxWaitTimeMs == 2
MaxFnCalls == 3

\* The error the k-th invocation of fn throws
fnError(k) == NewError(k, "fn", <<"fn failed">>)

\* The caller's getTimeoutError: an error made from the one it is given
getTimeoutError(innerError) ==
    [origin |-> "getTimeoutError", inner |-> innerError]

\* A slip of line 81: the clock is compared with the budget, startTime forgotten.
isTimedOutSinceZero(currentTime, start, maxWait) == currentTime > maxWait

\* A slip of line 81: the operands of the subtraction are exchanged.
isTimedOutSwapped(currentTime, start, maxWait) == start - currentTime > maxWait

\* line 81
isTimedOut(currentTime, start, maxWait) == currentTime - start > maxWait

\* A slip of line 87: the line is written after every call.
stallLinesAlways(hasLooped) == 1

\* lines 87-91: the lines written to the console after the loop
stallLines(hasLooped) == IF hasLooped THEN 1 ELSE 0

RetryInit ==
    /\ platform = "linux"
    /\ processEnv = ExecProcessEnv
    /\ errnoIsNumber = FALSE
    /\ EnvIdle
    /\ ExecIdle
    /\ PurgeIdle
    /\ FsIdle
    /\ IsoIdle
    /\ InstallIdle
    /\ rtPc = "Pending"
    /\ now \in 0..1
    /\ maxWaitTimeMs \in (-1)..MaxWaitTimeMs
    /\ startTime = 0
    /\ looped = FALSE
    /\ fnCalls = 0
    /\ lastError = None
    /\ rtResult = None
    /\ rtOutcome = NoOutcome
    /\ failedAt = 0
    /\ factoryCalls = 0
    /\ stallLogs = 0

\* Time passes while the call is running. The clock is followed up to
\* MaxClock, and beyond it for as long as the loop is within its budget.
Tick ==
    /\ rtPc \in {"Pending", "Attempting", "Succeeded"}
    /\ \/ now < MaxClock
       \/ rtPc = "Attempting" /\ now - startTime <= maxWaitTimeMs
    /\ now' = now + 1
    /\ UNCHANGED <<rtPc, maxWaitTimeMs, startTime, looped, fnCalls, lastError,
                   rtResult, rtOutcome, failedAt, factoryCalls, stallLogs>>
    /\ UNCHANGED exceptRetry

\* lines 69-70
Begin ==
    /\ rtPc = "Pending"
    /\ startTime' = now
    /\ looped' = FALSE
    /\ rtPc' = "Attempting"
    /\ UNCHANGED <<now, maxWaitTimeMs, fnCalls, lastError, rtResult, rtOutcome,
                   failedAt, factoryCalls, stallLogs>>
    /\ UNCHANGED exceptRetry

\* lines 76-77: fn returns and the loop is left. fn is followed for
\* MaxFnCalls invocations within the budget, and for one after it.
FnReturns ==
    /\ rtPc = "Attempting"
    /\ fnCalls < MaxFnCalls + (IF now - startTime > maxWaitTimeMs THEN 1 ELSE 0)
    /\ fnCalls' = fnCalls + 1
    /\ rtResult' = Some(fnCalls + 1)
    /\ rtPc' = "Succeeded"
    /\ UNCHANGED <<now, maxWaitTimeMs, startTime, looped, lastError, rtOutcome,
                   failedAt, factoryCalls, stallLogs>>
    /\ UNCHANGED exceptRetry

\* lines 76, 78-84: fn throws; the catch block reads the clock and either
\* throws getTimeoutError(e) or lets the loop go on
FnThrows ==
    /\ rtPc = "Attempting"
    /\ fnCalls < MaxFnCalls + (IF now - startTime > maxWaitTimeMs THEN 1 ELSE 0)
    /\ fnCalls' = fnCalls + 1
    /\ lastError' = Some(fnError(fnCalls + 1))
    /\ looped' = TRUE
    /\ IF isTimedOut(now, startTime, maxWaitTimeMs)
       THEN /\ rtOutcome' = Threw(getTimeoutError(fnError(fnCalls + 1)))
            /\ factoryCalls' = factoryCalls + 1
            /\ failedAt' = now
            /\ rtPc' = "Failed"
       ELSE /\ rtPc' = "Attempting"
            /\ UNCHANGED <<rtOutcome, factoryCalls, failedAt>>
    /\ UNCHANGED <<now, maxWaitTimeMs, startTime, rtResult, stallLogs>>
    /\ UNCHANGED exceptRetry

\* lines 87-93: the line about the stall, if the loop went round, and the return
Finish ==
    /\ rtPc = "Succeeded"
    /\ stallLogs' = stallLogs + stallLines(looped)
    /\ rtOutcome' = Returned(rtResult)
    /\ rtPc' = "Returned"
    /\ UNCHANGED <<now, maxWaitTimeMs, startTime, looped, fnCalls, lastError,
                   rtResult, failedAt, factoryCalls>>
    /\ UNCHANGED exceptRetry

RetryNext == Tick \/ Begin \/ FnReturns \/ FnThrows \/ Finish

SpecRetry == RetryInit /\ [][RetryNext]_vars

-----------------------------------------------------------------------------
(* Claims about retryUntilTimeout *)

\* C3: when fn fails on every invocation the call never returns a result,
\* and when it fails, the time elapsed since its start is at least
\* maxWaitTimeMs and the error thrown is getTimeoutError(e) for the error e
\* of the latest invocation of fn.
C3_TimeoutAfterBudget ==
    /\ rtResult = None =>
          (rtPc \notin {"Succeeded", "Returned"} /\ rtOutcome.kind # "returned")
    /\ rtPc = "Failed" =>
          /\ rtOutcome.kind = "threw"
          /\ failedAt - startTime >= maxWaitTimeMs
          /\ valueOf(rtOutcome.error) = getTimeoutError(fnError(fnCalls))
          /\ lastError = Some(fnError(fnCalls))
          /\ factoryCalls = 1

\* C3's case: fn failed more than once, the first time within the budget.
C3_Witness ==
    /\ rtPc = "Failed"
    /\ fnCalls >= 2
    /\ rtResult = None
    /\ maxWaitTimeMs >= 1
    /\ startTime >= 1

\* C4: when fn succeeds on its N-th invocation, the failures before it
\* within the budget, fn is invoked N times, the call returns the N-th
\* invocation's result, getTimeoutError is never invoked, and the line about
\* the stall is written once if N > 1 and not at all if N = 1. A call fails
\* only on a failure of fn seen after more than maxWaitTimeMs.
C4_SucceedsOnNth ==
    /\ rtPc = "Succeeded" => (rtResult = Some(fnCalls) /\ stallLogs = 0)
    /\ rtPc = "Returned" =>
          /\ rtOutcome = Returned(Some(fnCalls))
          /\ factoryCalls = 0
          /\ stallLogs = IF fnCalls > 1 THEN 1 ELSE 0
    /\ rtPc = "Failed" => failedAt - startTime > maxWaitTimeMs

\* C4's case: the third invocation succeeded and the call returned.
C4_Witness ==
    /\ rtPc = "Returned"
    /\ fnCalls = 3
    /\ looped
    /\ stallLogs = 1
    /\ now - startTime <= maxWaitTimeMs


\* C19: a call of retryUntilTimeout with maxWaitTimeMs <= 0 fails at once
\* with a configuration error: fn is never invoked, getTimeoutError is never
\* invoked, and the call does not return a result.
C19_NonPositiveBudgetRejected ==
    maxWaitTimeMs <= 0 =>
        /\ fnCalls = 0
        /\ factoryCalls = 0
        /\ rtOutcome.kind # "returned"

-----------------------------------------------------------------------------
(* PurgeAction.run and the PurgeManager it drives *)

\* The folders of the two tiers. The normal tier is local to the repository
\* (the common/temp folder and a local cache); the unsafe tier is shared by the
\* user's repositories (the ".rush" folder in the home directory).
NormalTargets == {"common/temp", "common/cache"}
UnsafeTargets == {"~/.rush"}
PurgeTargets == NormalTargets \cup UnsafeTargets

\* PurgeManager.purgeNormal: the normal tier is registered
registerNormalTargets(targets) == targets \cup NormalTargets

\* The shared folders of the user are registered
registerUnsafeTargets(targets) == targets \cup UnsafeTargets

\* PurgeManager.purgeUnsafe: "Also delete shared files such as the package
\* manager instances stored in the ".rush" folder in the user's home directory"
purgeUnsafe(targets) == registerUnsafeTargets(registerNormalTargets(targets))

\* A slip of lines 44-48: the flag is not looked at.
registrationCallIgnoringFlag(unsafe) == "purgeNormal"

\* A slip of lines 44-48: the branches the wrong way round
registrationCallInverted(unsafe) == IF unsafe THEN "purgeNormal" ELSE "purgeUnsafe"

\* lines 44-48: the one registration call run() makes
registrationCall(unsafe) == IF unsafe THEN "purgeUnsafe" ELSE "purgeNormal"

\* A slip of the callback of run(): it goes on after a call has thrown.
afterCallIgnoringThrow(next, threw) == next

\* Where the callback of run() is after a call: at the next statement, or,
\* when the call threw, out of the callback, with the promise rejected
afterCall(next, threw) == IF threw THEN "Rejected" ELSE next


PurgeInit ==
    /\ platform = "linux"
    /\ processEnv = ExecProcessEnv
    /\ errnoIsNumber = FALSE
    /\ EnvIdle
    /\ ExecIdle
    /\ RetryIdle
    /\ FsIdle
    /\ IsoIdle
    /\ InstallIdle
    /\ purgePc = "Pending"
    /\ unsafeFlag \in BOOLEAN
    /\ purgeCalls = << >>
    /\ registered = {}
    /\ pending = {}
    /\ onDisk \in SUBSET PurgeTargets
    /\ deleted = {}
    /\ failures = {}
    /\ raised = FALSE
    /\ reports = 0

\* line 37: the callback given to Promise.resolve().then() starts
RunPurge ==
    /\ purgePc = "Pending"
    /\ purgePc' = "Started"
    /\ UNCHANGED <<unsafeFlag, purgeCalls, registered, pending, onDisk, deleted,
                   failures, raised, reports>>
    /\ UNCHANGED exceptPurge

\* line 40: this.eventHooksManager.handle(Event.preRushInstall)
HandleEvent ==
    /\ purgePc = "Started"
    /\ \E threw \in BOOLEAN :
          /\ raised' = threw
          /\ purgePc' = afterCall("Handled", threw)
    /\ UNCHANGED <<unsafeFlag, purgeCalls, registered, pending, onDisk, deleted,
                   failures, reports>>
    /\ UNCHANGED exceptPurge

\* line 42: new PurgeManager(this.rushConfiguration); a constructor that
\* throws ends the callback before any method of the manager is called
NewPurgeManager ==
    /\ purgePc = "Handled"
    /\ registered' = {}
    /\ \E threw \in BOOLEAN :
          /\ raised' = threw
          /\ purgePc' = afterCall("Constructed", threw)
    /\ UNCHANGED <<unsafeFlag, purgeCalls, pending, onDisk, deleted, failures,
                   reports>>
    /\ UNCHANGED exceptPurge

\* lines 44-48: purgeManager.purgeUnsafe() or purgeManager.purgeNormal()
Register ==
    /\ purgePc = "Constructed"
    /\ LET name == registrationCall(unsafeFlag)
       IN  /\ purgeCalls' = Append(purgeCalls, name)
           /\ \E threw \in BOOLEAN :
                 /\ raised' = threw
                 /\ registered' = IF threw THEN registered
                                  ELSE IF name = "purgeUnsafe" THEN purgeUnsafe(registered)
                                  ELSE registerNormalTargets(registered)
                 /\ purgePc' = afterCall("Registered", threw)
    /\ UNCHANGED <<unsafeFlag, pending, onDisk, deleted, failures, reports>>
    /\ UNCHANGED exceptPurge

\* line 50: purgeManager.deleteAll() starts the deletion of every registered
\* path and returns
DeleteAll ==
    /\ purgePc = "Registered"
    /\ purgeCalls' = Append(purgeCalls, "deleteAll")
    /\ \E threw \in BOOLEAN :
          /\ raised' = threw
          /\ pending' = IF threw THEN pending ELSE registered
          /\ purgePc' = afterCall("Initiated", threw)
    /\ UNCHANGED <<unsafeFlag, registered, onDisk, deleted, failures, reports>>
    /\ UNCHANGED exceptPurge

\* lines 52-53: console.log(... started successfully and will complete
\* asynchronously ...); the callback returns and the promise of run() resolves
Report ==
    /\ purgePc = "Initiated"
    /\ reports' = reports + 1
    /\ purgePc' = "Resolved"
    /\ UNCHANGED <<unsafeFlag, purgeCalls, registered, pending, onDisk, deleted,
                   failures, raised>>
    /\ UNCHANGED exceptPurge

\* The deletion of one path, begun by deleteAll, ends: a path that is not
\* there is passed over, a path that is there is removed, or its removal fails
\* and the others are still attempted.
DeleteTarget ==
    /\ \E path \in pending :
          /\ pending' = pending \ {path}
          /\ \/ /\ path \notin onDisk
                /\ UNCHANGED <<onDisk, deleted, failures>>
             \/ /\ path \in onDisk
                /\ onDisk' = onDisk \ {path}
                /\ deleted' = deleted \cup {path}
                /\ UNCHANGED failures
             \/ /\ path \in onDisk
                /\ failures' = failures \cup {path}
                /\ UNCHANGED <<onDisk, deleted>>
    /\ UNCHANGED <<purgePc, unsafeFlag, purgeCalls, registered, raised, reports>>
    /\ UNCHANGED exceptPurge

PurgeNext ==
    \/ RunPurge
    \/ HandleEvent
    \/ NewPurgeManager
    \/ Register
    \/ DeleteAll
    \/ Report
    \/ DeleteTarget

SpecPurge == PurgeInit /\ [][PurgeNext]_vars

\* The calls on the PurgeManager so far are the first calls of the given ones.
callsBeginAs(expected) ==
    /\ Len(purgeCalls) <= Len(expected)
    /\ purgeCalls = SubSeq(expected, 1, Len(purgeCalls))

\* C13: the calls run() makes on the PurgeManager are, in this order, the
\* registration of the normal tier (always), the registration of the unsafe
\* tier (only with the unsafe flag), and deleteAll, once and last; a run that
\* reports has made them all.
C13_CallOrder ==
    LET expected == <<"purgeNormal">>
                    \o (IF unsafeFlag THEN <<"purgeUnsafe">> ELSE << >>)
                    \o <<"deleteAll">>
    IN  /\ callsBeginAs(expected)
        /\ purgePc = "Resolved" => purgeCalls = expected

\* C13 as the code has it: run() makes one registration call, purgeUnsafe with
\* the unsafe flag and purgeNormal without it, and then deleteAll, once and
\* last; no registration call follows deleteAll, and a run whose promise
\* resolves has made both calls.
C13_OneRegistrationThenDeleteAll ==
    LET expected == IF unsafeFlag THEN <<"purgeUnsafe", "deleteAll">>
                    ELSE <<"purgeNormal", "deleteAll">>
    IN  /\ callsBeginAs(expected)
        /\ purgePc = "Resolved" => purgeCalls = expected

\* C13's case: a run with the unsafe flag has made its calls and resolved.
C13_Witness ==
    /\ unsafeFlag
    /\ purgePc = "Resolved"
    /\ purgeCalls = <<"purgeUnsafe", "deleteAll">>


\* The paths registered under the unsafe tier only
unsafeOnlyTargets == UnsafeTargets \ NormalTargets

\* Whether a call of the given name has been made on the PurgeManager
isCalled(name) == \E i \in DOMAIN purgeCalls : purgeCalls[i] = name

\* C14: in a run without the unsafe flag the unsafe tier is never registered,
\* and no path of the unsafe tier alone is registered, set to be deleted, or
\* deleted.
C14_SafeRunSparesUnsafeTier ==
    ~unsafeFlag =>
        /\ ~isCalled("purgeUnsafe")
        /\ (registered \cup pending \cup deleted \cup failures) \cap unsafeOnlyTargets = {}

\* C14's case: a run without the flag has deleted the normal tier, and the
\* shared folder of the user is still there.
C14_Witness ==
    /\ ~unsafeFlag
    /\ purgePc = "Resolved"
    /\ pending = {}
    /\ deleted = NormalTargets
    /\ unsafeOnlyTargets # {}
    /\ unsafeOnlyTargets \subseteq onDisk


\* C16: the report "started successfully and will complete asynchronously"
\* is written at most once, and only when the registration and deleteAll have
\* both been called and have returned; when a call threw, the promise of run()
\* is rejected and there is no report; the deletions deleteAll began may still
\* be under way when the report is written.
C16_ReportAfterInitiation ==
    /\ reports <= 1
    /\ reports = 1 =>
          /\ ~raised
          /\ purgePc = "Resolved"
          /\ Len(purgeCalls) = 2
          /\ purgeCalls[2] = "deleteAll"
          /\ registered # {}
          /\ registered = pending \cup {path \in registered :
                                           \/ path \in deleted \cup failures
                                           \/ path \notin onDisk}
    /\ raised => (reports = 0 /\ purgePc = "Rejected")
    /\ purgePc = "Resolved" => reports = 1

\* C16's case: the report is written while deletions are still under way.
C16_Witness ==
    /\ reports = 1
    /\ purgePc = "Resolved"
    /\ pending # {}
    /\ pending \cap onDisk # {}


-----------------------------------------------------------------------------
(* Utilities.dangerouslyDeletePath over a small file system *)

MaxDeletes == 2

\* The paths of the model: a folder, a file in it, a file whose name has a
\* glob character, and a file that name would match as a pattern. No folder
\* has more than one entry.
FolderT == <<"t">>
FileInT == <<"t","/","f">>
FileStar == <<"t","*">>
FileTx == <<"t","x">>
FsPaths == {FolderT, FileInT, FileStar, FileTx}

\* Every file system over FsPaths: an entry exists only in a directory
FileSystems ==
    {files \in [FsPaths -> {"absent", "file", "directory"}] :
        /\ files[FileInT] \in {"absent", "file"}
        /\ files[FileStar] \in {"absent", "file"}
        /\ files[FileTx] \in {"absent", "file"}
        /\ files[FileInT] # "absent" => files[FolderT] = "directory"}

isUnder(path, folder) == startsWith(path, folder \o <<"/">>)

\* The paths that exist
existing(files) == {p \in DOMAIN files : files[p] # "absent"}

removePaths(files, paths) ==
    [p \in DOMAIN files |-> IF p \in paths THEN "absent" ELSE files[p]]

\* The folders a path is under
parentsOf(path) == {p \in FsPaths : isUnder(path, p)}

\* What unlink and rmdir fail with on a locked path: EPERM (the path is
\* immutable) or EBUSY (the path is in use as a mount point)
LockCodes == {"EPERM", "EBUSY"}

\* Whether unlink and rmdir of the path fail: the path is locked, or its
\* folder is locked with EPERM (no entry of an immutable folder is removed)
isRefused(lockedPaths, lockCode, path) ==
    \/ path \in lockedPaths
    \/ lockCode = "EPERM" /\ parentsOf(path) \cap lockedPaths # {}

\* A system error of fs: its code and the call that failed
SystemError(code, syscall) == [code |-> code, syscall |-> syscall]

\* rimraf.sync of a file (rimraf 2.7, not on Windows): unlink. When unlink
\* fails with EPERM rimraf takes the path for a folder: rmdir fails with
\* EPERM too, and reading the entries of the file throws ENOTDIR (scandir).
\* Any other error of unlink is thrown.
removeFile(files, lockedPaths, lockCode, path) ==
    IF ~isRefused(lockedPaths, lockCode, path)
    THEN [fs |-> removePaths(files, {path}), error |-> None]
    ELSE IF lockCode = "EPERM"
    THEN [fs |-> files, error |-> Some(SystemError("ENOTDIR", "scandir"))]
    ELSE [fs |-> files, error |-> Some(SystemError(lockCode, "unlink"))]

\* rimraf.sync of one literal path (rimraf 2.7, not on Windows). lstat: when
\* the path is not there nothing is done (ENOENT); when a file is where a
\* parent should be lstat and then unlink fail with ENOTDIR, which is thrown.
\* A file is removed as removeFile has it. A folder is removed with rmdir:
\* any error of it but ENOTEMPTY, EEXIST and EPERM is ignored, so with an
\* EBUSY lock on the folder the call returns and nothing is removed; else
\* what is in the folder is removed, which throws at the entry that cannot
\* be (a folder of the model has one entry at most, a file), and rmdir is
\* called again, which throws while the folder has an EPERM lock.
removeTree(files, lockedPaths, lockCode, path) ==
    LET below == {p \in existing(files) : isUnder(p, path)}
        refused == {p \in below : isRefused(lockedPaths, lockCode, p)}
    IN  IF path \notin existing(files)
        THEN IF \E p \in parentsOf(path) : files[p] = "file"
             THEN [fs |-> files, error |-> Some(SystemError("ENOTDIR", "unlink"))]
             ELSE [fs |-> files, error |-> None]
        ELSE IF files[path] # "directory"
        THEN removeFile(files, lockedPaths, lockCode, path)
        ELSE IF path \in lockedPaths /\ lockCode # "EPERM"
        THEN [fs |-> files, error |-> None]
        ELSE IF refused # {}
        THEN removeFile(files, lockedPaths, lockCode, CHOOSE p \in refused : TRUE)
        ELSE IF path \in lockedPaths
        THEN [fs |-> removePaths(files, below), error |-> Some(SystemError(lockCode, "rmdir"))]
        ELSE [fs |-> removePaths(files, below \cup {path}), error |-> None]

\* line 158: rimraf.sync(folderPath, { disableGlob: true })
rimrafSync(files, lockedPaths, lockCode, path) ==
    removeTree(files, lockedPaths, lockCode, path)

\* The text of a system error, up to the path it ends with
fsErrorText(error) ==
    (IF error.code = "ENOTDIR" THEN "ENOTDIR: not a directory"
     ELSE IF error.code = "EPERM" THEN "EPERM: operation not permitted"
     ELSE "EBUSY: resource busy or locked")
    \o ", " \o error.syscall

\* lines 156-163: what dangerouslyDeletePath leaves of the file system, and
\* how it ends
dangerouslyDeletePath(files, lockedPaths, lockCode, folderPath, newId) ==
    LET removal == rimrafSync(files, lockedPaths, lockCode, folderPath)
    IN  [fs |-> removal.fs,
         outcome |-> IF isSome(removal.error)
                     THEN Threw(NewError(newId, "dangerouslyDeletePath",
                            <<fsErrorText(valueOf(removal.error)), EOL,
                              "Often this is caused by a file lock from a process such as your text editor, command prompt, or \"gulp serve\"">>))
                     ELSE Returned(None)]

\* lines 126-135: lstat(filePath).isFile(), false when lstat throws
fileExists(files, filePath) == files[filePath] = "file"

\* lines 168-173: deleteFile does nothing unless a file is at the path; it
\* writes a line and unlinks the file, and what unlinkSync throws is thrown
\* as it is
deleteFile(files, lockedPaths, lockCode, filePath, newId) ==
    IF ~fileExists(files, filePath)
    THEN [fs |-> files, log |-> << >>, outcome |-> Returned(None)]
    ELSE IF isRefused(lockedPaths, lockCode, filePath)
    THEN [fs |-> files, log |-> <<"Deleting: ">>,
          outcome |-> Threw([id |-> newId, origin |-> "unlinkSync", code |-> lockCode,
                             errno |-> ErrnoNumber(IF lockCode = "EPERM" THEN -1 ELSE -16),
                             message |-> <<fsErrorText(SystemError(lockCode, "unlink"))>>])]
    ELSE [fs |-> removePaths(files, {filePath}), log |-> <<"Deleting: ">>,
          outcome |-> Returned(None)]

FsInit ==
    /\ platform = "linux"
    /\ processEnv = ExecProcessEnv
    /\ errnoIsNumber = FALSE
    /\ EnvIdle
    /\ ExecIdle
    /\ RetryIdle
    /\ PurgeIdle
    /\ IsoIdle
    /\ InstallIdle
    /\ fsPc = "Ready"
    /\ folderName = << >>
    /\ fs \in FileSystems
    /\ locked \in SUBSET (existing(fs) \cap {FolderT, FileInT})
    /\ deletions = << >>

\* A call of dangerouslyDeletePath
Delete ==
    /\ fsPc = "Ready"
    /\ Len(deletions) < MaxDeletes
    /\ \E folderPath \in FsPaths, lockCode \in LockCodes :
          LET ended == dangerouslyDeletePath(fs, locked, lockCode, folderPath,
                                             Len(deletions) + 1)
          IN  /\ fs' = ended.fs
              /\ deletions' = Append(deletions,
                                     [by |-> "dangerouslyDeletePath",
                                      path |-> folderPath, before |-> fs,
                                      locked |-> locked, log |-> << >>,
                                      after |-> ended.fs, outcome |-> ended.outcome])
    /\ UNCHANGED <<fsPc, folderName, locked>>
    /\ UNCHANGED exceptFs

\* A call of deleteFile
DeleteFile ==
    /\ fsPc = "Ready"
    /\ Len(deletions) < MaxDeletes
    /\ \E filePath \in FsPaths, lockCode \in LockCodes :
          LET ended == deleteFile(fs, locked, lockCode, filePath, Len(deletions) + 1)
          IN  /\ fs' = ended.fs
              /\ deletions' = Append(deletions,
                                     [by |-> "deleteFile",
                                      path |-> filePath, before |-> fs,
                                      locked |-> locked, log |-> ended.log,
                                      after |-> ended.fs, outcome |-> ended.outcome])
    /\ UNCHANGED <<fsPc, folderName, locked>>
    /\ UNCHANGED exceptFs

\* The process that held a lock lets go of it.
Unlock ==
    /\ fsPc # "Idle"
    /\ \E path \in locked : locked' = locked \ {path}
    /\ UNCHANGED <<fsPc, folderName, fs, deletions>>
    /\ UNCHANGED exceptFs

FsNext ==
    \/ Delete
    \/ DeleteFile
    \/ Unlock

SpecFs == FsInit /\ [][FsNext]_vars


\* The path and what is under it
literalTree(path) == {p \in FsPaths : p = path \/ isUnder(p, path)}

hasReturned(deletion) == deletion.outcome.kind = "returned"

\* The calls of dangerouslyDeletePath among the calls made
isDeletion(i) == deletions[i].by = "dangerouslyDeletePath"

\* No lock is held on the path or under it when the call is made.
isUnlocked(deletion) == literalTree(deletion.path) \cap deletion.locked = {}

\* C15: a call of dangerouslyDeletePath on a path that is not there returns
\* without error and leaves the file system as it was, so that a second
\* deletion of a path gives the file system of the first; a call that returns,
\* no lock being held, has removed the path and what is under it; no call
\* removes anything but the literal path and what is under it, whatever glob
\* characters it has.
C15_IdempotentLiteralDeletion ==
    \A i \in DOMAIN deletions :
        isDeletion(i) =>
            LET d == deletions[i]
            IN  /\ d.path \notin existing(d.before) =>
                      (hasReturned(d) /\ d.after = d.before)
                /\ (/\ i > 1
                    /\ isDeletion(i - 1)
                    /\ deletions[i - 1].path = d.path
                    /\ hasReturned(deletions[i - 1])
                    /\ isUnlocked(deletions[i - 1])) =>
                      (hasReturned(d) /\ d.after = deletions[i - 1].after)
                /\ (hasReturned(d) /\ isUnlocked(d)) =>
                      literalTree(d.path) \cap existing(d.after) = {}
                /\ \A p \in FsPaths \ literalTree(d.path) : d.after[p] = d.before[p]


-----------------------------------------------------------------------------
(* Utilities.createFolderWithRetry *)

\* line 113
FolderMaxWaitTimeMs == 7 * 1000

\* The times the clock is read at in a call of createFolderWithRetry
ClockValues == {0, 1, 7000, 7001, 7002}

FileLockGuidance ==
    "Often this is caused by a file lock from a process such as your text editor, command prompt, or \"gulp serve\""

\* A slip of directoryExists: whatever is at the path counts.
directoryExistsCountingFiles(files, directoryPath) == files[directoryPath] # "absent"

\* lines 140-149: lstatSync(directoryPath).isDirectory(), false when lstatSync
\* throws
directoryExists(files, directoryPath) == files[directoryPath] = "directory"

\* fsx.mkdirsSync(path): nothing to do when the folder is there; it throws
\* when a file is at the path or where a parent should be, and while a lock
\* is held on the path; else the folder and its missing parents are made.
mkdirsSync(files, lockedPaths, path, id) ==
    IF files[path] = "directory"
    THEN [fs |-> files, error |-> None]
    ELSE IF files[path] = "file"
    THEN [fs |-> files, error |-> Some([id |-> id, origin |-> "mkdirsSync",
                                         code |-> "EEXIST", errno |-> ErrnoNumber(-17),
                                         message |-> <<"EEXIST: file already exists, mkdir">>])]
    ELSE IF \E p \in parentsOf(path) : files[p] = "file"
    THEN [fs |-> files, error |-> Some([id |-> id, origin |-> "mkdirsSync",
                                         code |-> "ENOTDIR", errno |-> ErrnoNumber(-20),
                                         message |-> <<"ENOTDIR: not a directory, mkdir">>])]
    ELSE IF path \in lockedPaths
    THEN [fs |-> files, error |-> Some([id |-> id, origin |-> "mkdirsSync",
                                         code |-> "EPERM", errno |-> ErrnoNumber(-1),
                                         message |-> <<"EPERM: operation not permitted, mkdir">>])]
    ELSE [fs |-> [p \in DOMAIN files |->
                     IF p = path \/ p \in parentsOf(path) THEN "directory" ELSE files[p]],
          error |-> None]

\* lines 117-119: (e) => new Error(`Error: ${e}${os.EOL}Often this is ...`)
folderTimeoutError(id, e) ==
    NewError(id, "createFolderWithRetry",
             <<"Error: ", "Error: ">> \o e.message \o <<EOL, FileLockGuidance>>)


FolderInit ==
    /\ platform = "linux"
    /\ processEnv = ExecProcessEnv
    /\ errnoIsNumber = FALSE
    /\ EnvIdle
    /\ ExecIdle
    /\ PurgeIdle
    /\ IsoIdle
    /\ InstallIdle
    /\ fsPc = "Folder"
    /\ folderName \in {FolderT, FileInT}
    /\ fs \in FileSystems
    /\ locked \in SUBSET {folderName}
    /\ deletions = << >>
    /\ rtPc = "Pending"
    /\ now \in {0, 1}
    /\ maxWaitTimeMs = FolderMaxWaitTimeMs
    /\ startTime = 0
    /\ looped = FALSE
    /\ fnCalls = 0
    /\ lastError = None
    /\ rtResult = None
    /\ rtOutcome = NoOutcome
    /\ failedAt = 0
    /\ factoryCalls = 0
    /\ stallLogs = 0

\* Time passes while the call is running.
FolderTick ==
    /\ fsPc = "Folder"
    /\ rtPc \in {"Pending", "Attempting", "Succeeded"}
    /\ \E later \in ClockValues :
          /\ later > now
          /\ now' = later
    /\ UNCHANGED <<rtPc, maxWaitTimeMs, startTime, looped, fnCalls, lastError,
                   rtResult, rtOutcome, failedAt, factoryCalls, stallLogs>>
    /\ UNCHANGED exceptRetry

\* lines 104-106: the folder is there and the call returns; or lines 113-120,
\* 69-70: retryUntilTimeout is called and reads the clock
CreateFolder ==
    /\ fsPc = "Folder"
    /\ rtPc = "Pending"
    /\ IF directoryExists(fs, folderName)
       THEN /\ rtOutcome' = Returned(None)
            /\ rtPc' = "Returned"
            /\ UNCHANGED <<startTime, looped>>
       ELSE /\ startTime' = now
            /\ looped' = FALSE
            /\ rtPc' = "Attempting"
            /\ UNCHANGED rtOutcome
    /\ UNCHANGED <<now, maxWaitTimeMs, fnCalls, lastError, rtResult, failedAt,
                   factoryCalls, stallLogs>>
    /\ UNCHANGED exceptRetry

\* lines 76-84 with fn = () => fsx.mkdirsSync(folderName): the folder is made
\* and the loop is left, or mkdirsSync throws and the catch block reads the
\* clock and either throws the new Error or lets the loop go on
MkdirsSync ==
    /\ fsPc = "Folder"
    /\ rtPc = "Attempting"
    /\ fnCalls < MaxFnCalls
    /\ fnCalls' = fnCalls + 1
    /\ LET made == mkdirsSync(fs, locked, folderName, fnCalls + 1)
       IN  IF ~isSome(made.error)
           THEN /\ fs' = made.fs
                /\ rtResult' = None
                /\ rtPc' = "Succeeded"
                /\ UNCHANGED <<looped, lastError, rtOutcome, factoryCalls, failedAt>>
           ELSE /\ lastError' = made.error
                /\ looped' = TRUE
                /\ IF isTimedOut(now, startTime, maxWaitTimeMs)
                   THEN /\ rtOutcome' = Threw(folderTimeoutError(0, valueOf(made.error)))
                        /\ factoryCalls' = factoryCalls + 1
                        /\ failedAt' = now
                        /\ rtPc' = "Failed"
                   ELSE /\ rtPc' = "Attempting"
                        /\ UNCHANGED <<rtOutcome, factoryCalls, failedAt>>
                /\ UNCHANGED <<fs, rtResult>>
    /\ UNCHANGED <<now, maxWaitTimeMs, startTime, stallLogs>>
    /\ UNCHANGED <<processVars, envVars, execVars, purgeVars, isoVars, installVars, fsPc,
                   folderName, locked, deletions>>

FolderNext ==
    \/ FolderTick
    \/ CreateFolder
    \/ MkdirsSync
    \/ Finish
    \/ Unlock

SpecFolder == FolderInit /\ [][FolderNext]_vars


\* The parts of the text of the inner error are all in the text of the error.
wrapsError(error, inner) ==
    \A i \in DOMAIN inner.message : hasPart(error, inner.message[i])

\* C20: when the folder is there as a directory, createFolderWithRetry
\* returns without error and without calling mkdirsSync; else mkdirsSync is
\* called again after every failure until it succeeds or a failure comes more
\* than 7000 ms after the start, and then the call throws a new Error whose
\* text has the text of the latest error of mkdirsSync and the words about a
\* file lock; with a file at the path the call never returns and ends so.
C20_CreateFolderWithRetry ==
    /\ (rtPc # "Pending" /\ fnCalls = 0 /\ fs[folderName] = "directory") =>
          (rtPc = "Returned" /\ rtOutcome = Returned(None) /\ factoryCalls = 0)
    /\ (rtPc # "Pending" /\ fnCalls = 0 /\ fs[folderName] # "directory") =>
          (rtPc = "Attempting" /\ rtOutcome = NoOutcome)
    /\ (rtPc = "Attempting" /\ fnCalls > 0) =>
          /\ isSome(lastError)
          /\ valueOf(lastError).id = fnCalls
          /\ fs[folderName] # "directory"
          /\ rtOutcome = NoOutcome
    /\ rtPc \in {"Succeeded", "Returned"} =>
          /\ fs[folderName] = "directory"
          /\ factoryCalls = 0
          /\ rtOutcome.kind # "threw"
    /\ rtPc = "Failed" =>
          /\ failedAt - startTime > 7000
          /\ fs[folderName] # "directory"
          /\ rtOutcome.kind = "threw"
          /\ valueOf(rtOutcome.error).origin = "createFolderWithRetry"
          /\ valueOf(lastError).id = fnCalls
          /\ wrapsError(valueOf(rtOutcome.error), valueOf(lastError))
          /\ hasPart(valueOf(rtOutcome.error), FileLockGuidance)
          /\ factoryCalls = 1
    /\ fs[folderName] = "file" =>
          /\ rtPc \in {"Pending", "Attempting", "Failed"}
          /\ rtOutcome.kind # "returned"
          /\ (fnCalls > 0 => valueOf(lastError).code = "EEXIST")

\* C20's case: a file is at the path; mkdirsSync failed 6999 ms after the
\* start and was called again, failed 7001 ms after the start, and the call
\* threw.
C20_Witness ==
    /\ fs[folderName] = "file"
    /\ rtPc = "Failed"
    /\ fnCalls = 2
    /\ startTime = 1
    /\ failedAt = 7002
    /\ hasPart(valueOf(rtOutcome.error), FileLockGuidance)


-----------------------------------------------------------------------------
(* The environment objects of a run of invocations *)

MaxInvocations == 2

\* process.env, and the object a caller passes as environment
ProcessEnvRef == 1
SuppliedRef == 2

\* What an invocation of an entry point gives for the environment of its
\* child: the environment argument (an object, or undefined), keepEnvironment,
\* and initCwd; an entry point without one of them has its default.
Invocation(entry, environment, keepEnvironment, initCwd) ==
    [entry |-> entry, environment |-> environment,
     keepEnvironment |-> keepEnvironment, initCwd |-> initCwd]

Invocations ==
    {Invocation(entry, e, k, << >>) :
        entry \in {"executeCommand", "executeCommandAndCaptureOutput"},
        e \in {None, Some(SuppliedRef), Some(ProcessEnvRef)}, k \in BOOLEAN}
    \cup
    {Invocation(entry, e, FALSE, << >>) :
        entry \in {"executeCommandWithRetry", "executeCommandAsync"},
        e \in {None, Some(SuppliedRef), Some(ProcessEnvRef)}}
    \cup
    {Invocation(entry, None, FALSE, i) :
        entry \in {"executeLifecycleCommand", "executeLifecycleCommandAsync"},
        i \in InitCwds}
    \cup
    {Invocation("installPackageInDirectory", None, FALSE, << >>)}

\* The object an invocation starts from
baseRef(initialEnvironment) ==
    IF isSome(initialEnvironment) THEN valueOf(initialEnvironment) ELSE ProcessEnvRef

\* A slip of _createEnvironmentForRushCommand: the entries are taken out of
\* initialEnvironment itself, which is returned.
sanitizeInPlace(objects, initCwd, initialEnvironment) ==
    [objects |-> [objects EXCEPT ![baseRef(initialEnvironment)] =
                     createEnvironmentForRushCommand(
                         platform, objects[ProcessEnvRef], initCwd,
                         Some(objects[baseRef(initialEnvironment)]))],
     ref |-> Some(baseRef(initialEnvironment))]

\* lines 434-475 on objects: a new object (const environment = {}) is made,
\* filled from initialEnvironment, or from process.env, and returned
sanitizeIntoNewObject(objects, initCwd, initialEnvironment) ==
    [objects |-> Append(objects,
                        createEnvironmentForRushCommand(
                            platform, objects[ProcessEnvRef], initCwd,
                            IF isSome(initialEnvironment)
                            THEN Some(objects[valueOf(initialEnvironment)])
                            ELSE None)),
     ref |-> Some(Len(objects) + 1)]

\* line 492 (and lines 303, 331, 371, where there is no keepEnvironment): the
\* env option of the spawn call
childEnvironment(objects, invocation) ==
    IF invocation.entry = "installPackageInDirectory"
    THEN \* line 425: the environment argument is a sanitized copy of
         \* process.env, which _executeCommandInternal sanitizes again
         LET copy == sanitizeIntoNewObject(objects, << >>, None)
         IN  sanitizeIntoNewObject(copy.objects, << >>, copy.ref)
    ELSE IF invocation.keepEnvironment
    THEN [objects |-> objects, ref |-> invocation.environment]
    ELSE sanitizeIntoNewObject(objects, invocation.initCwd, invocation.environment)

IsoInit ==
    /\ platform \in Platforms
    /\ processEnv = ExecProcessEnv
    /\ errnoIsNumber = FALSE
    /\ EnvIdle
    /\ ExecIdle
    /\ RetryIdle
    /\ PurgeIdle
    /\ FsIdle
    /\ InstallIdle
    /\ envObjects = <<ExecProcessEnv, SuppliedEnvironment>>
    /\ childEnvs = << >>

\* An entry point is called and makes the options of its spawn call.
Invoke ==
    /\ envObjects # << >>
    /\ Len(childEnvs) < MaxInvocations
    /\ \E invocation \in Invocations :
          LET handed == childEnvironment(envObjects, invocation)
          IN  /\ envObjects' = handed.objects
              /\ processEnv' = handed.objects[ProcessEnvRef]
              /\ childEnvs' = Append(childEnvs,
                                     [invocation |-> invocation, env |-> handed.ref])
    /\ UNCHANGED <<platform, errnoIsNumber, envVars, execVars, retryVars, purgeVars,
                   fsVars, installVars>>

IsoNext == Invoke

SpecIso == IsoInit /\ [][IsoNext]_vars


\* The content of the object an invocation starts from, before any invocation
initialBase(invocation) ==
    IF invocation.environment = Some(SuppliedRef) THEN SuppliedEnvironment
    ELSE ExecProcessEnv

\* What the sanitizer makes of the invocation's own base and initCwd
snapshotFor(invocation) ==
    LET base == initialBase(invocation)
        kept == {key \in DOMAIN base : ~isSkippedKey(platform, key)}
    IN  [key \in kept \cup (IF invocation.initCwd # << >> THEN {INIT_CWD} ELSE {}) |->
            IF key = INIT_CWD /\ invocation.initCwd # << >>
            THEN invocation.initCwd
            ELSE base[key]]

\* process.env and the supplied object are as they were at the start.
basesUnchanged ==
    /\ processEnv = ExecProcessEnv
    /\ envObjects[ProcessEnvRef] = ExecProcessEnv
    /\ envObjects[SuppliedRef] = SuppliedEnvironment

\* The object handed to the child of invocation i is a new one, handed to no
\* other child.
isFreshSnapshot(i) ==
    /\ isSome(childEnvs[i].env)
    /\ valueOf(childEnvs[i].env) \notin {ProcessEnvRef, SuppliedRef}
    /\ \A j \in DOMAIN childEnvs : j # i => childEnvs[j].env # childEnvs[i].env

\* C21: after any sequence of invocations process.env and the environment a
\* caller supplied are as they were; the object handed to each child is a new
\* one, which is neither of them nor the object of another invocation, and
\* its content is given by the base and the initCwd of its own invocation.
C21_EnvironmentIsolation ==
    envObjects # << >> =>
        /\ basesUnchanged
        /\ \A i \in DOMAIN childEnvs :
              isSome(childEnvs[i].env) =>
                 /\ isFreshSnapshot(i)
                 /\ envObjects[valueOf(childEnvs[i].env)] =
                       IF childEnvs[i].invocation.keepEnvironment
                       THEN initialBase(childEnvs[i].invocation)
                       ELSE snapshotFor(childEnvs[i].invocation)

\* C21 as the code has it: the bases are never changed; an invocation without
\* keepEnvironment hands its child a new object of its own, with the content
\* the sanitizer gives for its base and initCwd; an invocation with
\* keepEnvironment hands over the object its caller supplied, itself.
C21_IsolationUnlessKept ==
    envObjects # << >> =>
        /\ basesUnchanged
        /\ \A i \in DOMAIN childEnvs :
              IF childEnvs[i].invocation.keepEnvironment
              THEN childEnvs[i].env = childEnvs[i].invocation.environment
              ELSE /\ isFreshSnapshot(i)
                   /\ envObjects[valueOf(childEnvs[i].env)] =
                         snapshotFor(childEnvs[i].invocation)

\* C21's case: the supplied object was sanitized for one child and handed
\* as it is to another.
C21_Witness ==
    /\ Len(childEnvs) = 2
    /\ childEnvs[1].invocation.environment = Some(SuppliedRef)
    /\ ~childEnvs[1].invocation.keepEnvironment
    /\ childEnvs[1].env = Some(3)
    /\ envObjects[3] # SuppliedEnvironment
    /\ childEnvs[2].invocation.keepEnvironment
    /\ childEnvs[2].env = Some(SuppliedRef)
    /\ basesUnchanged


-----------------------------------------------------------------------------
(* The two retry loops, each run to its end *)

\* The steps of a call of executeCommandWithRetry
RetryCallNext ==
    \/ Call
    \/ SpawnSync
    \/ SpawnSyncCmd
    \/ ProcessResult
    \/ AttemptEnded
    \/ RetryCallback

\* One call, of executeCommandWithRetry or of retryUntilTimeout. What the
\* loop of executeCommandWithRetry does is decided by maxAttempts, by
\* retryCallback and by how each execution ends; one command line stands for
\* them all.
TerminationInit ==
    \/ /\ Init
       /\ isRetry
       /\ call.command = <<"n","p","m">>
       /\ call.args = << >>
       /\ call.environment = None
    \/ RetryInit

TerminationNext == RetryCallNext \/ RetryNext

\* The code is synchronous: when the command, the callback or fn has returned
\* control the loop takes its next step, and the clock goes on.
SpecTermination ==
    /\ TerminationInit
    /\ [][TerminationNext]_vars
    /\ WF_vars(RetryCallNext)
    /\ WF_vars(Begin)
    /\ WF_vars(FnReturns \/ FnThrows)
    /\ WF_vars(Finish)
    /\ WF_vars(Tick)

\* retryUntilTimeout has ended in one way only: with fn's result and no
\* timeout error made, or with the timeout error and no result.
endsOneWay ==
    /\ rtPc \in {"Succeeded", "Returned"} =>
          (isSome(rtResult) /\ factoryCalls = 0 /\ rtOutcome.kind # "threw")
    /\ rtPc = "Failed" =>
          /\ rtResult = None
          /\ factoryCalls = 1
          /\ rtOutcome = Threw(getTimeoutError(valueOf(lastError)))
          /\ failedAt - startTime > maxWaitTimeMs

\* executeCommandWithRetry keeps within its budget of attempts.
withinAttempts ==
    isRetry =>
        /\ executions <= (IF call.maxAttempts >= 1 THEN call.maxAttempts ELSE 0)
        /\ attemptNumber >= 1 => attemptNumber <= call.maxAttempts
        /\ pc = "Done" => callOutcome.kind \in {"returned", "threw"}

\* C22: when fn returns control each time and the clock goes on past
\* startTime + maxWaitTimeMs, retryUntilTimeout leaves its loop, whatever fn
\* does, and ends either with fn's result or with the timeout error, never
\* both; executeCommandWithRetry ends, returning or throwing, after at most
\* maxAttempts executions of the command, and attemptNumber is never more
\* than maxAttempts.
C22_RetryTermination ==
    /\ [](endsOneWay /\ withinAttempts)
    /\ (rtPc = "Attempting") ~> (rtPc \in {"Succeeded", "Failed"})
    /\ (rtPc = "Pending") ~> (rtPc \in {"Returned", "Failed"})
    /\ (pc = "Pending") ~> (pc = "Done")

\* C22's case: fn failed until the clock had gone past the budget, and the
\* loop ended with the timeout error.
C22_Witness ==
    /\ rtPc = "Failed"
    /\ maxWaitTimeMs = MaxWaitTimeMs
    /\ fnCalls >= 3
    /\ now - startTime > maxWaitTimeMs
    /\ rtOutcome.kind = "threw"

====
